---- MODULE Spec2Model ----
(***************************************************************************)
(* Verification model of the Mattermost GitHub plugin: the subscription    *)
(* store, its readers and writers, and the delivery gate of the webhook    *)
(* handler.                                                                *)
(*                                                                         *)
(* Strings on which the code computes (repository names, keys) are         *)
(* sequences of one-character strings, so that strings.ToLower,            *)
(* strings.Split, strings.Trim and Go's byte-wise string order are         *)
(* computed and not assumed.  Texts that the code only passes around       *)
(* (channel ids, user ids, error messages) are TLA+ strings.               *)
(***************************************************************************)
EXTENDS Integers, Sequences, FiniteSets, TLC

VARIABLES
    kv,      \* the value stored under SubscriptionsKey in the KV store
    last,    \* the last completed call: its arguments, the store before it, its result
    cpc,     \* concurrent callers: position of each caller inside AddSubscription
    carg,    \* concurrent callers: the (repo, sub) arguments of each caller
    csubs,   \* concurrent callers: the aggregate each caller read and modified
    cold,    \* concurrent callers: the old value SetAtomicWithRetries last read
    ctries,  \* concurrent callers: attempts made by SetAtomicWithRetries
    cerr,    \* concurrent callers: the error AddSubscription returned
    wpc,     \* webhook workers: position of each worker in handling a delivery
    wdel,    \* webhook workers: the delivery identifier each worker handles
    wleft,   \* webhook workers: the matched channels each worker has yet to post to
    wlock,   \* webhook deliveries: the holder of the delivery's cluster lock
    wdone,   \* webhook deliveries: the done marker
    wtried,  \* webhook deliveries: posts attempted, per matched channel
    wsent,   \* webhook deliveries: posts made, per matched channel
    jkv,     \* round trip: the JSON document stored under SubscriptionsKey
    jlast,   \* round trip: the last call on the JSON store, its arguments and result
    arg,     \* pure functions: the input drawn for the function under check
    res,     \* pure functions: the function applied and what it returned
    mkv,     \* mute list: the bytes stored under the user's "-muted-users" key
    mlast,   \* mute list: the last mute command, the store before it, its answer
    owait,   \* OAuth waits: position, user and errorMsg of each waiting goroutine
    osubs,   \* OAuth broker: the channels subscribed, per user
    ochan,   \* OAuth broker: what each subscribed channel holds
    ohist,   \* OAuth waits: what was published and what the waiter did, per wait
    olast,   \* OAuth: the last completion handler run and what it published
    akv,     \* HTTP API: the user infos, private-repository marks and OAuth states stored
    areq,    \* HTTP API: position and locals of each request being served
    adm,     \* HTTP API: the direct messages the bot has posted, per user
    anow,    \* HTTP API: the clock, model.GetMillis()
    alast    \* HTTP API: the last request served, the store before it, its outcome

storeVars == <<kv, last>>
concVars == <<cpc, carg, csubs, cold, ctries, cerr>>
hookVars == <<wpc, wdel, wleft, wlock, wdone, wtried, wsent>>
jsonVars == <<jkv, jlast>>
pureVars == <<arg, res>>
muteVars == <<mkv, mlast>>
oauthVars == <<owait, osubs, ochan, ohist, olast>>
apiVars == <<akv, areq, adm, anow, alast>>
\* The variables of the specifications other than Spec, SpecConc and SpecWebhook.
auxVars == <<jsonVars, pureVars, muteVars, oauthVars, apiVars>>
\* What the actions of one of these specifications leave alone.
notJsonVars == <<storeVars, concVars, hookVars, pureVars, muteVars, oauthVars, apiVars>>
notPureVars == <<storeVars, concVars, hookVars, jsonVars, muteVars, oauthVars, apiVars>>
notMuteVars == <<storeVars, concVars, hookVars, jsonVars, pureVars, oauthVars, apiVars>>
notOAuthVars == <<storeVars, concVars, hookVars, jsonVars, pureVars, muteVars, apiVars>>
notApiVars == <<storeVars, concVars, hookVars, jsonVars, pureVars, muteVars, oauthVars>>
vars == <<kv, last, cpc, carg, csubs, cold, ctries, cerr,
          wpc, wdel, wleft, wlock, wdone, wtried, wsent, auxVars>>

(***************************************************************************)
(* Bounds of the model.                                                    *)
(***************************************************************************)
\* Most subscriptions the stored aggregate holds in the model.
MaxSubs == 2
\* Attempts SetAtomicWithRetries makes before it gives up.
MaxRetries == 2
\* Most posts counted per delivery and channel.
MaxPosts == 2
\* OAuth-completion waits started by connectUserToGitHub.
MaxWaits == 1
\* Requests the HTTP API serves at the same time.
MaxRequests == 2

(***************************************************************************)
(* Strings as sequences of characters.                                     *)
(***************************************************************************)
UpperChars == <<"A","B","C","D","E","F","G","H","I","J","K","L","M",
                "N","O","P","Q","R","S","T","U","V","W","X","Y","Z">>
LowerChars == <<"a","b","c","d","e","f","g","h","i","j","k","l","m",
                "n","o","p","q","r","s","t","u","v","w","x","y","z">>

\* The byte value of a character (ASCII), which Go's string comparison uses.
Byte(c) ==
    IF \E i \in 1..26 : UpperChars[i] = c
    THEN 64 + (CHOOSE i \in 1..26 : UpperChars[i] = c)
    ELSE IF \E i \in 1..26 : LowerChars[i] = c
    THEN 96 + (CHOOSE i \in 1..26 : LowerChars[i] = c)
    ELSE IF c = "/" THEN 47
    ELSE IF c = "-" THEN 45
    ELSE IF c = "." THEN 46
    ELSE 95

ToLowerChar(c) ==
    IF \E i \in 1..26 : UpperChars[i] = c
    THEN LowerChars[CHOOSE i \in 1..26 : UpperChars[i] = c]
    ELSE c

\* strings.ToLower
ToLower(s) == [i \in 1..Len(s) |-> ToLowerChar(s[i])]

\* strings.Split(s, "/")[0]: the text before the first "/", all of s if there is none
SplitFirst(s) ==
    IF \E i \in 1..Len(s) : s[i] = "/"
    THEN SubSeq(s, 1, (CHOOSE i \in 1..Len(s) :
                         /\ s[i] = "/"
                         /\ \A j \in 1..(i - 1) : s[j] # "/") - 1)
    ELSE s

\* strings.Trim(s, "/"): s without its leading and trailing "/" characters
TrimSlash(s) ==
    IF \A i \in 1..Len(s) : s[i] = "/"
    THEN <<>>
    ELSE LET lo == CHOOSE i \in 1..Len(s) :
                       s[i] # "/" /\ \A j \in 1..(i - 1) : s[j] = "/"
             hi == CHOOSE i \in 1..Len(s) :
                       s[i] # "/" /\ \A j \in (i + 1)..Len(s) : s[j] = "/"
         IN  SubSeq(s, lo, hi)

\* Go's a < b on strings: byte-wise lexicographic order
RECURSIVE StrLess(_, _)
StrLess(a, b) ==
    IF b = <<>> THEN FALSE
    ELSE IF a = <<>> THEN TRUE
    ELSE IF Byte(Head(a)) # Byte(Head(b)) THEN Byte(Head(a)) < Byte(Head(b))
    ELSE StrLess(Tail(a), Tail(b))

\* fmt.Sprintf("%s/%s", owner, repo)
fullNameFromOwnerAndRepo(owner, repo) == owner \o <<"/">> \o repo

(***************************************************************************)
(* Inputs of the model.                                                    *)
(***************************************************************************)
ChannelIDs == {"c1", "c2"}
CreatorIDs == {"u1", "u2"}
FeatureInputs == {"pulls,issues,creates,deletes"}

Owner_a == <<"a">>
Owner_b == <<"b">>
Repo_w == <<"w">>
\* Lower-case owners and repository names, as Subscribe and handleUnsubscribe pass them.
OwnerInputs == {Owner_a, Owner_b}
RepoInputs == {<<>>, Repo_w}
\* Full names as GitHub sends them in webhook payloads (any letter case).
FullNameInputs == {<<"a","/","w">>, <<"A","/","W">>, <<"a","/","x">>, <<"b","/","w">>}
\* The --exclude lists of the model.
ExcludeInputs == {<<>>, << <<"a","/","w">> >>}
\* The repository keys AddSubscription is called with.
RepoKeyInputs ==
    {fullNameFromOwnerAndRepo(Owner_a, <<>>), fullNameFromOwnerAndRepo(Owner_a, Repo_w),
     fullNameFromOwnerAndRepo(Owner_b, Repo_w)}

\* SubscriptionFlags
FlagsOf(exclude) ==
    [ExcludeOrgMembers |-> FALSE, IncludeOnlyOrgMembers |-> FALSE,
     RenderStyle |-> "", ExcludeRepository |-> exclude]

\* Subscription, as Subscribe builds it for repository key `repo`
SubscriptionOf(channelID, creatorID, features, exclude, repo) ==
    [ChannelID |-> channelID, CreatorID |-> creatorID, Features |-> features,
     Flags |-> FlagsOf(exclude), Repository |-> repo]

SubInputs(repo) ==
    {SubscriptionOf(c, u, f, e, repo) :
        c \in ChannelIDs, u \in CreatorIDs, f \in FeatureInputs, e \in ExcludeInputs}

(***************************************************************************)
(* The subscriptions aggregate and the KV store.                           *)
(*                                                                         *)
(* Subscriptions.Repositories is a Go map: a function whose domain is the  *)
(* set of keys present.  The store holds json.Marshal of the aggregate and *)
(* Get unmarshals it; for the field types of Subscriptions encoding/json   *)
(* gives back equal keys, list orders and field values, so the stored      *)
(* bytes are represented by the aggregate they encode.                     *)
(***************************************************************************)
EmptyMap == [k \in {} |-> <<>>]
EmptyAggregate == [Repositories |-> EmptyMap]
NothingStored == [stored |-> FALSE, subs |-> EmptyAggregate]

HasKey(m, k) == k \in DOMAIN m
\* m[k] of a Go map: the zero value (a nil list) for a missing key
MapGet(m, k) == IF k \in DOMAIN m THEN m[k] ELSE <<>>
\* m[k] = v
MapSet(m, k, v) == [x \in (DOMAIN m) \cup {k} |-> IF x = k THEN v ELSE m[x]]

NoError == <<>>
\* errors.Wrap(err, msg)
Wrap(err, msg) == <<msg>> \o err

\* Number of subscriptions in an aggregate.
RECURSIVE SumLens(_, _)
SumLens(m, ks) ==
    IF ks = {} THEN 0
    ELSE LET k == CHOOSE x \in ks : TRUE
         IN  Len(m[k]) + SumLens(m, ks \ {k})
Total(subs) == SumLens(subs.Repositories, DOMAIN subs.Repositories)

\* GetSubscriptions: readOK is whether store.Get succeeds.
GetSubscriptions(stored, readOK) ==
    IF ~readOK
    THEN [err |-> Wrap(<<"store error">>, "could not get subscriptions from KVStore"),
          subs |-> EmptyAggregate]
    ELSE IF ~stored.stored
    THEN [err |-> NoError, subs |-> EmptyAggregate]
    ELSE [err |-> NoError, subs |-> stored.subs]

\* The index of the first entry of repoSubs for channelID, 0 if there is none.
IndexOfChannel(repoSubs, channelID) ==
    IF \E i \in 1..Len(repoSubs) : repoSubs[i].ChannelID = channelID
    THEN CHOOSE i \in 1..Len(repoSubs) :
            /\ repoSubs[i].ChannelID = channelID
            /\ \A j \in 1..(i - 1) : repoSubs[j].ChannelID # channelID
    ELSE 0

\* A plausible bug: AddSubscription appends without looking for the channel.
AddSubscriptionAlwaysAppend(subs, repo, sub) ==
    [Repositories |-> MapSet(subs.Repositories, repo,
                             Append(MapGet(subs.Repositories, repo), sub))]

\* A plausible bug: a channel that has a subscription under the key keeps it.
AddSubscriptionNoReplace(subs, repo, sub) ==
    LET repoSubs == MapGet(subs.Repositories, repo)
    IN  [Repositories |-> MapSet(subs.Repositories, repo,
            IF IndexOfChannel(repoSubs, sub.ChannelID) # 0 THEN repoSubs
            ELSE Append(repoSubs, sub))]

\* AddSubscription, the modification of the aggregate read (upsert by ChannelID).
AddSubscriptionModify(subs, repo, sub) ==
    LET repoSubs == MapGet(subs.Repositories, repo)
        index == IndexOfChannel(repoSubs, sub.ChannelID)
        newSubs ==
            IF ~HasKey(subs.Repositories, repo) THEN <<sub>>
            ELSE IF index # 0 THEN [repoSubs EXCEPT ![index] = sub]
            ELSE Append(repoSubs, sub)
    IN  [Repositories |-> MapSet(subs.Repositories, repo, newSubs)]

\* A plausible bug: Unsubscribe stores the aggregate whether or not it removed an entry.
UnsubscribeRemovedAlways(repoSubs, channelID) == TRUE

\* Unsubscribe, the flag `removed`: whether the loop found an entry of the channel.
UnsubscribeRemoved(repoSubs, channelID) == IndexOfChannel(repoSubs, channelID) # 0

\* A plausible bug: the list is cut at the entry of the channel, and what
\* follows the entry is lost with it.
UnsubscribeModifyCut(subs, repoWithOwner, channelID) ==
    LET repoSubs == MapGet(subs.Repositories, repoWithOwner)
        index == IndexOfChannel(repoSubs, channelID)
    IN  [Repositories |-> MapSet(subs.Repositories, repoWithOwner,
                                 SubSeq(repoSubs, 1, index - 1))]

\* Unsubscribe, the modification of the aggregate read: the first entry of the
\* channel is cut out of the list.
UnsubscribeModify(subs, repoWithOwner, channelID) ==
    LET repoSubs == MapGet(subs.Repositories, repoWithOwner)
        index == IndexOfChannel(repoSubs, channelID)
    IN  [Repositories |-> MapSet(subs.Repositories, repoWithOwner,
            SubSeq(repoSubs, 1, index - 1) \o SubSeq(repoSubs, index + 1, Len(repoSubs)))]

\* A plausible bug: the aggregate is written although the store reports an error.
StoreSubscriptionsThenFail(stored, s, writeOK) ==
    [err |-> IF writeOK THEN NoError ELSE <<"store error">>,
     stored |-> [stored |-> TRUE, subs |-> s]]

\* StoreSubscriptions with no other writer at work: SetAtomicWithRetries stores
\* the marshalled aggregate whatever the old value is; writeOK is whether the
\* store accepts the write.
StoreSubscriptions(stored, s, writeOK) ==
    IF writeOK
    THEN [err |-> NoError, stored |-> [stored |-> TRUE, subs |-> s]]
    ELSE [err |-> <<"store error">>, stored |-> stored]

(***************************************************************************)
(* Readers of the aggregate.                                               *)
(***************************************************************************)
\* permissionToRepo: whether the creator can read the repository on GitHub;
\* `permitted` is the set of users GitHub grants access to it.
permissionToRepo(permitted, creatorID, name) == creatorID \in permitted

\* Subscription.excludedRepoForSub: fullName is repo.GetFullName()
excludedRepoForSub(sub, fullName) ==
    \E i \in 1..Len(sub.Flags.ExcludeRepository) : sub.Flags.ExcludeRepository[i] = fullName

\* A plausible bug: the exclusion list is not consulted.
KeepSubNoExclusion(sub, fullName, name, private, permitted) ==
    ~(private /\ ~permissionToRepo(permitted, sub.CreatorID, name))

\* A plausible bug: the permission of the creator is not consulted.
KeepSubNoPermission(sub, fullName, name, private, permitted) ==
    ~excludedRepoForSub(sub, fullName)

\* The body of the loop of GetSubscribedChannelsForRepository: whether sub is kept.
KeepSub(sub, fullName, name, private, permitted) ==
    /\ ~(private /\ ~permissionToRepo(permitted, sub.CreatorID, name))
    /\ ~excludedRepoForSub(sub, fullName)

\* The loop of GetSubscribedChannelsForRepository over subsForRepo.
RECURSIVE SubsToReturn(_, _, _, _, _)
SubsToReturn(subsForRepo, fullName, name, private, permitted) ==
    IF subsForRepo = <<>> THEN <<>>
    ELSE LET rest == SubsToReturn(Tail(subsForRepo), fullName, name, private, permitted)
         IN  IF KeepSub(Head(subsForRepo), fullName, name, private, permitted)
             THEN <<Head(subsForRepo)>> \o rest
             ELSE rest

\* A plausible bug: the organization's subscriptions are put first.
SubsForRepoOrgFirst(subs, name) ==
    MapGet(subs.Repositories, fullNameFromOwnerAndRepo(SplitFirst(name), <<>>))
        \o MapGet(subs.Repositories, name)

\* A plausible bug: every key of the owner is a candidate.
SubsForRepoAllOfOwner(subs, name) ==
    LET own == {k \in DOMAIN subs.Repositories : SplitFirst(k) = SplitFirst(name)}
        f == CHOOSE g \in [1..Cardinality(own) -> own] :
                 \A i, j \in 1..Cardinality(own) : i # j => g[i] # g[j]
        cat[i \in 0..Cardinality(own)] ==
            IF i = 0 THEN <<>> ELSE cat[i - 1] \o subs.Repositories[f[i]]
    IN  cat[Cardinality(own)]

\* The candidates of GetSubscribedChannelsForRepository: the repository's own
\* subscriptions, then those of its organization; name is the lower-case full name.
SubsForRepo(subs, name) ==
    LET org == SplitFirst(name)
        orgKey == fullNameFromOwnerAndRepo(org, <<>>)
    IN  MapGet(subs.Repositories, name) \o MapGet(subs.Repositories, orgKey)

\* The name GetSubscribedChannelsForRepository looks up.
EventName(fullName) == ToLower(fullName)

\* GetSubscribedChannelsForRepository; nil and the empty list are both <<>>.
GetSubscribedChannelsForRepository(stored, fullName, private, permitted, readOK) ==
    LET name == EventName(fullName)
        g == GetSubscriptions(stored, readOK)
    IN  IF g.err # NoError THEN <<>>
        ELSE SubsToReturn(SubsForRepo(g.subs, name), fullName, name, private, permitted)

\* The orders in which a range loop may visit the keys of a Go map.
IterationOrders(m) ==
    {f \in [1..Cardinality(DOMAIN m) -> DOMAIN m] :
        \A i, j \in 1..Cardinality(DOMAIN m) : i # j => f[i] # f[j]}

\* The inner loop of GetSubscriptionsByChannel over the list of key repo.
RECURSIVE FilterChannel(_, _, _)
FilterChannel(list, repo, channelID) ==
    IF list = <<>> THEN <<>>
    ELSE LET s == Head(list)
             rest == FilterChannel(Tail(list), repo, channelID)
         IN  IF s.ChannelID = channelID
             THEN <<IF Len(s.Repository) = 0 THEN [s EXCEPT !.Repository = repo] ELSE s>>
                      \o rest
             ELSE rest

\* The outer loop of GetSubscriptionsByChannel, visiting the keys in `order`.
RECURSIVE FilteredSubs(_, _, _)
FilteredSubs(m, order, channelID) ==
    IF order = <<>> THEN <<>>
    ELSE FilterChannel(m[Head(order)], Head(order), channelID)
             \o FilteredSubs(m, Tail(order), channelID)

\* One pass of the insertion sort: x is moved left while it is less than its
\* left neighbour.
RECURSIVE InsertSorted(_, _)
InsertSorted(sorted, x) ==
    IF sorted = <<>> THEN <<x>>
    ELSE LET prev == sorted[Len(sorted)]
         IN  IF StrLess(x.Repository, prev.Repository)
             THEN InsertSorted(SubSeq(sorted, 1, Len(sorted) - 1), x) \o <<prev>>
             ELSE sorted \o <<x>>

\* A plausible bug: the list is returned in map iteration order.
SortByRepositoryNoSort(list) == list

\* sort.Slice by Repository (an insertion sort for lists of fewer than 12 entries)
RECURSIVE SortByRepository(_)
SortByRepository(list) ==
    IF list = <<>> THEN <<>>
    ELSE InsertSorted(SortByRepository(SubSeq(list, 1, Len(list) - 1)), list[Len(list)])

\* GetSubscriptionsByChannel
GetSubscriptionsByChannel(stored, channelID, order, readOK) ==
    LET g == GetSubscriptions(stored, readOK)
    IN  IF g.err # NoError
        THEN [err |-> Wrap(g.err, "could not get subscriptions"), subs |-> <<>>]
        ELSE [err |-> NoError,
              subs |-> SortByRepository(FilteredSubs(g.subs.Repositories, order, channelID))]

\* SubscriptionFlags.String: the flags it prints, in its order.
FlagsString(flags) ==
    (IF flags.ExcludeOrgMembers THEN <<[flag |-> "--exclude-org-member", value |-> <<"true">>]>>
     ELSE <<>>)
    \o (IF flags.IncludeOnlyOrgMembers
        THEN <<[flag |-> "--include-only-org-members", value |-> <<"true">>]>> ELSE <<>>)
    \o (IF flags.RenderStyle # ""
        THEN <<[flag |-> "--render-style", value |-> <<flags.RenderStyle>>]>> ELSE <<>>)
    \o (IF Len(flags.ExcludeRepository) > 0
        THEN <<[flag |-> "--exclude", value |-> flags.ExcludeRepository]>> ELSE <<>>)

\* A plausible bug: a failed read is shown as an empty channel.
ListTextOnErrorAsEmpty(err) ==
    [error |-> NoError, header |-> "Currently there are no subscriptions in this channel",
     lines |-> <<>>]

\* handleSubscriptionsList: the text returned when GetSubscriptionsByChannel fails.
ListTextOnError(err) == [error |-> err, header |-> "", lines |-> <<>>]

\* handleSubscriptionsList: the text it returns, as its header and its lines.
handleSubscriptionsList(stored, channelID, order, readOK) ==
    LET r == GetSubscriptionsByChannel(stored, channelID, order, readOK)
    IN  IF r.err # NoError THEN ListTextOnError(r.err)
        ELSE [error |-> NoError,
              header |-> IF Len(r.subs) = 0
                         THEN "Currently there are no subscriptions in this channel"
                         ELSE "### Subscriptions in this channel",
              lines |-> [i \in 1..Len(r.subs) |->
                            [repo |-> TrimSlash(r.subs[i].Repository),
                             features |-> r.subs[i].Features,
                             flags |-> FlagsString(r.subs[i].Flags)]]]

(***************************************************************************)
(* The calls, one at a time (specification Spec).  Each action is a whole  *)
(* call; `last` holds the call and its result until the caller has taken   *)
(* it (Return), and is "none" between calls.                               *)
(***************************************************************************)
Procs == {1, 2}
NoArg == [repo |-> <<>>, sub |-> SubscriptionOf("", "", "", <<>>, <<>>)]

\* The concurrent callers at rest.
ConcIdle ==
    /\ cpc = [p \in Procs |-> "idle"]
    /\ carg = [p \in Procs |-> NoArg]
    /\ csubs = [p \in Procs |-> EmptyAggregate]
    /\ cold = [p \in Procs |-> NothingStored]
    /\ ctries = [p \in Procs |-> 0]
    /\ cerr = [p \in Procs |-> NoError]

Workers == {"w1", "w2"}
Deliveries == {"d1", "d2"}
\* The channels the matcher yields for each delivery of the model.
HookMatched(d) == IF d = "d1" THEN {"c1", "c2"} ELSE {"c1"}

\* The webhook workers at rest, no delivery seen.
HookIdle ==
    /\ wpc = [w \in Workers |-> "idle"]
    /\ wdel = [w \in Workers |-> "d1"]
    /\ wleft = [w \in Workers |-> {}]
    /\ wlock = [d \in Deliveries |-> "free"]
    /\ wdone = [d \in Deliveries |-> FALSE]
    /\ wtried = [d \in Deliveries |-> [c \in ChannelIDs |-> 0]]
    /\ wsent = [d \in Deliveries |-> [c \in ChannelIDs |-> 0]]

\* The JSON store empty, no call made on it.
JsonIdle ==
    /\ jkv = [stored |-> FALSE]
    /\ jlast = [op |-> "none"]

\* No pure function under check.
PureIdle ==
    /\ arg = <<>>
    /\ res = [op |-> "none"]

\* No muted users stored, no mute command given.
MuteIdle ==
    /\ mkv = <<>>
    /\ mlast = [op |-> "none"]

\* No OAuth-completion wait registered, no completion published.
OAuthUsers == {"u1", "u2"}
WaitIDs == 1..MaxWaits
OAuthIdle ==
    /\ owait = [w \in WaitIDs |-> [pc |-> "idle", userID |-> "", errorMsg |-> ""]]
    /\ osubs = [u \in OAuthUsers |-> <<>>]
    /\ ochan = [w \in WaitIDs |-> <<>>]
    /\ ohist = [w \in WaitIDs |->
                   [firstPub |-> "none", timedOut |-> FALSE, dms |-> 0, unsubs |-> 0]]
    /\ olast = [op |-> "none"]

\* The HTTP API at rest: nobody connected, nothing stored, no request served.
ApiUsers == {"u1", "u2"}
RequestIDs == 1..MaxRequests
ApiIdle ==
    /\ akv = [info |-> [u \in ApiUsers |-> <<>>], private |-> [u \in ApiUsers |-> <<>>],
              state |-> <<>>, mapping |-> <<>>]
    /\ areq = [q \in RequestIDs |-> [pc |-> "idle"]]
    /\ adm = [u \in ApiUsers |-> <<>>]
    /\ anow = 0
    /\ alast = [op |-> "none"]

StoreIdle ==
    /\ kv = NothingStored
    /\ last = [op |-> "none"]

Init ==
    /\ StoreIdle
    /\ ConcIdle
    /\ HookIdle
    /\ JsonIdle
    /\ PureIdle
    /\ MuteIdle
    /\ OAuthIdle
    /\ ApiIdle

\* AddSubscription(repo, sub)
AddSubscription(repo, sub, readOK, writeOK) ==
    LET g == GetSubscriptions(kv, readOK)
        modified == AddSubscriptionModify(g.subs, repo, sub)
        st == StoreSubscriptions(kv, modified, writeOK)
    IN  /\ last.op = "none"
        /\ Total(modified) <= MaxSubs
        /\ IF g.err # NoError
           THEN /\ kv' = kv
                /\ last' = [op |-> "AddSubscription", repo |-> repo, sub |-> sub, pre |-> kv,
                            readOK |-> readOK,
                            err |-> Wrap(g.err, "could not get subscriptions"),
                            wrote |-> FALSE]
           ELSE /\ kv' = st.stored
                /\ last' = [op |-> "AddSubscription", repo |-> repo, sub |-> sub, pre |-> kv,
                            readOK |-> readOK,
                            err |-> IF st.err # NoError
                                    THEN Wrap(st.err, "could not store subscriptions")
                                    ELSE NoError,
                            wrote |-> TRUE]
        /\ UNCHANGED <<concVars, hookVars, auxVars>>

\* Unsubscribe(channelID, repo, owner)
Unsubscribe(channelID, repo, owner, readOK, writeOK) ==
    LET repoWithOwner == owner \o <<"/">> \o repo
        g == GetSubscriptions(kv, readOK)
        repoSubs == MapGet(g.subs.Repositories, repoWithOwner)
        removed == UnsubscribeRemoved(repoSubs, channelID)
        st == StoreSubscriptions(kv, UnsubscribeModify(g.subs, repoWithOwner, channelID),
                                 writeOK)
        rec == [op |-> "Unsubscribe", channelID |-> channelID, repo |-> repoWithOwner,
                pre |-> kv, readOK |-> readOK]
    IN  /\ last.op = "none"
        /\ IF g.err # NoError
           THEN /\ kv' = kv
                /\ last' = rec @@ [err |-> Wrap(g.err, "could not get subscriptions"),
                                   wrote |-> FALSE]
           ELSE IF ~HasKey(g.subs.Repositories, repoWithOwner) \/ ~removed
           THEN /\ kv' = kv
                /\ last' = rec @@ [err |-> NoError, wrote |-> FALSE]
           ELSE /\ kv' = st.stored
                /\ last' = rec @@ [err |-> IF st.err # NoError
                                           THEN Wrap(st.err, "could not store subscriptions")
                                           ELSE NoError,
                                   wrote |-> TRUE]
        /\ UNCHANGED <<concVars, hookVars, auxVars>>

\* GetSubscriptions()
GetSubscriptionsCall(readOK) ==
    LET g == GetSubscriptions(kv, readOK)
    IN  /\ last.op = "none"
        /\ last' = [op |-> "GetSubscriptions", readOK |-> readOK, err |-> g.err,
                    subs |-> g.subs]
        /\ UNCHANGED <<kv, concVars, hookVars, auxVars>>

\* GetSubscriptionsByChannel(channelID)
GetSubscriptionsByChannelCall(channelID, readOK) ==
    \E order \in IterationOrders(GetSubscriptions(kv, readOK).subs.Repositories) :
        LET r == GetSubscriptionsByChannel(kv, channelID, order, readOK)
        IN  /\ last.op = "none"
            /\ last' = [op |-> "GetSubscriptionsByChannel", channelID |-> channelID,
                        readOK |-> readOK, err |-> r.err, subs |-> r.subs]
            /\ UNCHANGED <<kv, concVars, hookVars, auxVars>>

\* handleSubscriptionsList, for the channel of the command
handleSubscriptionsListCall(channelID, readOK) ==
    \E order \in IterationOrders(GetSubscriptions(kv, readOK).subs.Repositories) :
        /\ last.op = "none"
        /\ last' = [op |-> "handleSubscriptionsList", channelID |-> channelID,
                    readOK |-> readOK,
                    text |-> handleSubscriptionsList(kv, channelID, order, readOK)]
        /\ UNCHANGED <<kv, concVars, hookVars, auxVars>>

\* GetSubscribedChannelsForRepository(repo), for a webhook event on repo
GetSubscribedChannelsForRepositoryCall(fullName, private, permitted, readOK) ==
    /\ last.op = "none"
    /\ last' = [op |-> "GetSubscribedChannelsForRepository", fullName |-> fullName,
                private |-> private, permitted |-> permitted, readOK |-> readOK,
                subs |-> GetSubscribedChannelsForRepository(kv, fullName, private,
                                                            permitted, readOK)]
    /\ UNCHANGED <<kv, concVars, hookVars, auxVars>>

\* The caller has taken the result of the call; the next call may start.
Return ==
    /\ last.op # "none"
    /\ last' = [op |-> "none"]
    /\ UNCHANGED <<kv, concVars, hookVars, auxVars>>

Next ==
    \/ Return
    \/ \E repo \in RepoKeyInputs : \E sub \in SubInputs(repo) : \E readOK, writeOK \in BOOLEAN :
          AddSubscription(repo, sub, readOK, writeOK)
    \/ \E channelID \in ChannelIDs, repo \in RepoInputs, owner \in OwnerInputs :
          \E readOK, writeOK \in BOOLEAN :
              Unsubscribe(channelID, repo, owner, readOK, writeOK)
    \/ \E readOK \in BOOLEAN : GetSubscriptionsCall(readOK)
    \/ \E channelID \in ChannelIDs, readOK \in BOOLEAN :
          GetSubscriptionsByChannelCall(channelID, readOK)
    \/ \E channelID \in ChannelIDs, readOK \in BOOLEAN :
          handleSubscriptionsListCall(channelID, readOK)
    \/ \E fullName \in FullNameInputs, private \in BOOLEAN, permitted \in SUBSET CreatorIDs :
          \E readOK \in BOOLEAN :
              GetSubscribedChannelsForRepositoryCall(fullName, private, permitted, readOK)

Spec == Init /\ [][Next]_vars

(***************************************************************************)
(* AddSubscription by two callers at once (specification SpecConc).  Each  *)
(* caller runs AddSubscription once; its steps are the read of the store   *)
(* and the steps of SetAtomicWithRetries, which reads the old value, calls *)
(* the value function and sets the new value if the stored value is still  *)
(* the old one, and tries again otherwise.                                 *)
(***************************************************************************)
\* StoreSubscriptions, the value function handed to SetAtomicWithRetries: it
\* marshals the caller's aggregate s, whatever the old value.
StoreSubscriptionsValueFunc(oldValue, s) == [stored |-> TRUE, subs |-> s]

\* A caller enters AddSubscription(repo, sub).
CallAddSubscription(p, repo, sub) ==
    /\ cpc[p] = "idle"
    /\ cpc' = [cpc EXCEPT ![p] = "read"]
    /\ carg' = [carg EXCEPT ![p] = [repo |-> repo, sub |-> sub]]
    /\ UNCHANGED <<kv, last, csubs, cold, ctries, cerr, hookVars, auxVars>>

\* AddSubscription: GetSubscriptions and the modification of what was read.
AddSubscriptionRead(p, readOK) ==
    LET g == GetSubscriptions(kv, readOK)
    IN  /\ cpc[p] = "read"
        /\ IF g.err # NoError
           THEN /\ cerr' = [cerr EXCEPT ![p] = Wrap(g.err, "could not get subscriptions")]
                /\ cpc' = [cpc EXCEPT ![p] = "done"]
                /\ UNCHANGED csubs
           ELSE /\ csubs' = [csubs EXCEPT
                                ![p] = AddSubscriptionModify(g.subs, carg[p].repo, carg[p].sub)]
                /\ cpc' = [cpc EXCEPT ![p] = "get"]
                /\ UNCHANGED cerr
        /\ UNCHANGED <<kv, last, carg, cold, ctries, hookVars, auxVars>>

\* SetAtomicWithRetries: the start of an attempt, which reads the old value, or
\* the end of the loop when the attempts are used up.
SetAtomicGet(p, getOK) ==
    /\ cpc[p] = "get"
    /\ IF ctries[p] >= MaxRetries \/ ~getOK
       THEN /\ cerr' = [cerr EXCEPT ![p] = Wrap(<<"store error">>,
                                                "could not store subscriptions")]
            /\ cpc' = [cpc EXCEPT ![p] = "done"]
            /\ UNCHANGED cold
       ELSE /\ cold' = [cold EXCEPT ![p] = kv]
            /\ cpc' = [cpc EXCEPT ![p] = "set"]
            /\ UNCHANGED cerr
    /\ UNCHANGED <<kv, last, carg, csubs, ctries, hookVars, auxVars>>

\* SetAtomicWithRetries: the new value is set if the stored value is the old
\* value read; if it is not, the attempt is counted and the loop goes on.
SetAtomicSet(p) ==
    /\ cpc[p] = "set"
    /\ IF kv = cold[p]
       THEN /\ kv' = StoreSubscriptionsValueFunc(cold[p], csubs[p])
            /\ cpc' = [cpc EXCEPT ![p] = "done"]
            /\ UNCHANGED ctries
       ELSE /\ ctries' = [ctries EXCEPT ![p] = @ + 1]
            /\ cpc' = [cpc EXCEPT ![p] = "get"]
            /\ UNCHANGED kv
    /\ UNCHANGED <<last, carg, csubs, cold, cerr, hookVars, auxVars>>

NextConc ==
    \/ \E p \in Procs : \E repo \in RepoKeyInputs : \E sub \in SubInputs(repo) :
          CallAddSubscription(p, repo, sub)
    \/ \E p \in Procs, readOK \in BOOLEAN : AddSubscriptionRead(p, readOK)
    \/ \E p \in Procs, getOK \in BOOLEAN : SetAtomicGet(p, getOK)
    \/ \E p \in Procs : SetAtomicSet(p)

SpecConc == Init /\ [][NextConc]_vars

(***************************************************************************)
(* The delivery gate of the webhook handler (specification SpecWebhook).   *)
(* The handler registered for /webhook runs on one worker per request, on  *)
(* any instance of the cluster.  Per delivery identifier the gate goes     *)
(* Unseen -> Locked -> Done: the worker that takes the delivery's cluster  *)
(* lock posts to the matched channels, each post attempted once, sets the  *)
(* done marker and gives the lock back; a worker that finds the lock held, *)
(* the delivery done, or the store failing returns without posting.  The   *)
(* lock is held until it is given back, and the done marker outlives the   *)
(* runs of the model.                                                      *)
(***************************************************************************)
\* A plausible bug: the lock is granted whoever holds it.
HookCanLockAlways(d) == TRUE

\* Whether the cluster lock of delivery d can be taken: the delivery is Unseen.
HookCanLock(d) == wlock[d] = "free" /\ ~wdone[d]

\* A request carrying delivery d reaches worker w.
HookReceive(w, d) ==
    /\ wpc[w] = "idle"
    /\ wpc' = [wpc EXCEPT ![w] = "lock"]
    /\ wdel' = [wdel EXCEPT ![w] = d]
    /\ UNCHANGED <<storeVars, concVars, auxVars, wleft, wlock, wdone, wtried, wsent>>

\* The worker tries the lock of its delivery; storeOK is whether the store answers.
HookLock(w, storeOK) ==
    /\ wpc[w] = "lock"
    /\ IF storeOK /\ HookCanLock(wdel[w])
       THEN /\ wlock' = [wlock EXCEPT ![wdel[w]] = w]
            /\ wleft' = [wleft EXCEPT ![w] = HookMatched(wdel[w])]
            /\ wpc' = [wpc EXCEPT ![w] = "post"]
       ELSE /\ wpc' = [wpc EXCEPT ![w] = "idle"]
            /\ UNCHANGED <<wlock, wleft>>
    /\ UNCHANGED <<storeVars, concVars, auxVars, wdel, wdone, wtried, wsent>>

\* The worker posts to the next matched channel; postOK is whether the post is made.
HookPost(w, c, postOK) ==
    /\ wpc[w] = "post"
    /\ c \in wleft[w]
    /\ wtried[wdel[w]][c] < MaxPosts
    /\ wleft' = [wleft EXCEPT ![w] = @ \ {c}]
    /\ wtried' = [wtried EXCEPT ![wdel[w]][c] = @ + 1]
    /\ wsent' = [wsent EXCEPT ![wdel[w]][c] = IF postOK THEN @ + 1 ELSE @]
    /\ UNCHANGED <<storeVars, concVars, auxVars, wpc, wdel, wlock, wdone>>

\* The posts tried, the worker sets the done marker and gives the lock back.
HookFinish(w) ==
    /\ wpc[w] = "post"
    /\ wleft[w] = {}
    /\ wdone' = [wdone EXCEPT ![wdel[w]] = TRUE]
    /\ wlock' = [wlock EXCEPT ![wdel[w]] = IF @ = w THEN "free" ELSE @]
    /\ wpc' = [wpc EXCEPT ![w] = "idle"]
    /\ UNCHANGED <<storeVars, concVars, auxVars, wdel, wleft, wtried, wsent>>

NextWebhook ==
    \/ \E w \in Workers, d \in Deliveries : HookReceive(w, d)
    \/ \E w \in Workers, storeOK \in BOOLEAN : HookLock(w, storeOK)
    \/ \E w \in Workers, c \in ChannelIDs, postOK \in BOOLEAN : HookPost(w, c, postOK)
    \/ \E w \in Workers : HookFinish(w)

SpecWebhook == Init /\ [][NextWebhook]_vars

(***************************************************************************)
(* Properties of the concurrent callers (specification SpecConc).          *)
(***************************************************************************)
\* C2: when two concurrent AddSubscription calls for different channels or
\* different repository keys have both returned without error, the stored
\* aggregate holds the subscriptions of both.
C2_NoLostUpdate ==
    (/\ \A p \in Procs : cpc[p] = "done" /\ cerr[p] = NoError
     /\ \/ carg[1].repo # carg[2].repo
        \/ carg[1].sub.ChannelID # carg[2].sub.ChannelID)
        => \A p \in Procs :
              carg[p].sub \in {MapGet(kv.subs.Repositories, carg[p].repo)[i] :
                                  i \in 1..Len(MapGet(kv.subs.Repositories, carg[p].repo))}

\* SetAtomicWithRetries does detect a concurrent write and try again: a caller
\* has finished without error after an attempt that found the value changed.
RetryReached == \E p \in Procs : cpc[p] = "done" /\ cerr[p] = NoError /\ ctries[p] > 0

StoredLists == kv.subs.Repositories
PreLists == last.pre.subs.Repositories
\* The elements of a list.
Elems(list) == {list[i] : i \in 1..Len(list)}

\* C1: every list of the stored aggregate holds at most one subscription per
\* ChannelID, and an AddSubscription for a (key, ChannelID) pair that exists
\* puts the new subscription at the position of the old one and leaves the
\* length of the list as it was.
C1_AtMostOnePerChannel ==
    /\ \A k \in DOMAIN StoredLists :
          \A i, j \in 1..Len(StoredLists[k]) :
              i # j => StoredLists[k][i].ChannelID # StoredLists[k][j].ChannelID
    /\ (last.op = "AddSubscription" /\ last.err = NoError) =>
          LET old == MapGet(PreLists, last.repo)
              new == MapGet(StoredLists, last.repo)
          IN  \A i \in 1..Len(old) :
                  old[i].ChannelID = last.sub.ChannelID =>
                      /\ Len(new) = Len(old)
                      /\ new[i] = last.sub
                      /\ \A j \in 1..Len(old) : j # i => new[j] = old[j]

\* C1 witness: a subscription of a list of two was replaced by a different one.
C1_Witness ==
    /\ last.op = "AddSubscription"
    /\ last.err = NoError
    /\ Len(MapGet(PreLists, last.repo)) = 2
    /\ \E i \in 1..2 :
          /\ PreLists[last.repo][i].ChannelID = last.sub.ChannelID
          /\ PreLists[last.repo][i] # last.sub

\* The name and the organization key of the event of the last call.
EvName == ToLower(last.fullName)
EvOrgKey == SplitFirst(EvName) \o <<"/">>
EvIsQuery == last.op = "GetSubscribedChannelsForRepository" /\ last.readOK

\* C4: the subscriptions returned for an event are stored under the
\* lower-case name of its repository or under the key of its owner, and for a
\* public repository every subscription under these two keys that does not
\* exclude the repository is returned.
C4_TwoKeys ==
    EvIsQuery =>
        /\ \A s \in Elems(last.subs) :
              \E k \in {EvName, EvOrgKey} : s \in Elems(MapGet(StoredLists, k))
        /\ \A k \in (DOMAIN StoredLists) \ {EvName, EvOrgKey} :
              \A s \in Elems(StoredLists[k]) : s \notin Elems(last.subs)
        /\ ~last.private =>
              \A k \in {EvName, EvOrgKey} : \A s \in Elems(MapGet(StoredLists, k)) :
                  last.fullName \notin Elems(s.Flags.ExcludeRepository)
                      => s \in Elems(last.subs)

\* C4 witness: an event named in capitals finds the subscription of its
\* repository while a subscription of another owner's repository is stored.
C4_Witness ==
    /\ EvIsQuery
    /\ last.fullName = <<"A", "/", "W">>
    /\ \E s \in Elems(last.subs) : s.Repository = <<"a", "/", "w">>
    /\ Len(MapGet(StoredLists, <<"b", "/", "w">>)) > 0

\* C5: for a private repository no returned subscription has a creator without
\* permission to it; for a public repository a creator without permission
\* costs no subscription its place.
C5_PrivatePermission ==
    EvIsQuery =>
        /\ last.private => \A s \in Elems(last.subs) : s.CreatorID \in last.permitted
        /\ ~last.private =>
              \A k \in {EvName, EvOrgKey} : \A s \in Elems(MapGet(StoredLists, k)) :
                  (/\ s.CreatorID \notin last.permitted
                   /\ last.fullName \notin Elems(s.Flags.ExcludeRepository))
                      => s \in Elems(last.subs)

\* C5 witness: a private repository's event with a repository subscription
\* and an organization subscription, one creator permitted and one not.
C5_Witness ==
    /\ EvIsQuery
    /\ last.private
    /\ Len(last.subs) = 1
    /\ Len(MapGet(StoredLists, EvName)) = 1
    /\ Len(MapGet(StoredLists, EvOrgKey)) = 1
    /\ \E k \in {EvName, EvOrgKey} : StoredLists[k][1].CreatorID \notin last.permitted

C7_Order ==
    EvIsQuery =>
        LET Survives(s) ==
                /\ last.private => s.CreatorID \in last.permitted
                /\ last.fullName \notin Elems(s.Flags.ExcludeRepository)
        IN  last.subs = SelectSeq(MapGet(StoredLists, EvName), Survives)
                            \o SelectSeq(MapGet(StoredLists, EvOrgKey), Survives)

\* C7 witness: one channel is returned twice, for its repository subscription
\* and then for its organization subscription.
C7_Witness ==
    /\ EvIsQuery
    /\ Len(last.subs) = 2
    /\ last.subs[1].Repository = EvName
    /\ last.subs[2].Repository = EvOrgKey
    /\ last.subs[1].ChannelID = last.subs[2].ChannelID

\* C8: an Unsubscribe for a channel and key with no subscription writes
\* nothing, leaves the stored aggregate as it was, and returns no error (an
\* error is returned only when the read of the store fails).
C8_UnsubscribeNoMatch ==
    (/\ last.op = "Unsubscribe"
     /\ \A s \in Elems(MapGet(PreLists, last.repo)) : s.ChannelID # last.channelID)
        => /\ ~last.wrote
           /\ kv = last.pre
           /\ last.readOK => last.err = NoError

\* C8 witness: the key has a subscription of another channel only.
C8_Witness ==
    /\ last.op = "Unsubscribe"
    /\ last.readOK
    /\ Len(MapGet(PreLists, last.repo)) = 1
    /\ PreLists[last.repo][1].ChannelID # last.channelID

\* C9: GetSubscriptions returns an error exactly when the read of the store
\* fails, and an aggregate with an empty map when nothing is stored; the list
\* command answers a failed read with the error and not with the text for a
\* channel without subscriptions.
C9_GetSubscriptionsErrors ==
    /\ last.op = "GetSubscriptions" =>
          /\ (last.err # NoError) <=> ~last.readOK
          /\ (last.readOK /\ ~kv.stored) => DOMAIN last.subs.Repositories = {}
    /\ (last.op = "handleSubscriptionsList" /\ ~last.readOK) =>
          /\ last.text.error # NoError
          /\ last.text.error[Len(last.text.error)] = "store error"
          /\ last.text.header # "Currently there are no subscriptions in this channel"

\* C9 witness: the list command when the read of the store fails.
C9_Witness ==
    /\ last.op = "handleSubscriptionsList"
    /\ ~last.readOK
    /\ kv.stored

\* The subscriptions of a channel in the stored aggregate.
StoredOfChannel(channelID) ==
    {s \in UNION {Elems(StoredLists[k]) : k \in DOMAIN StoredLists} :
        s.ChannelID = channelID}

\* C10: GetSubscriptionsByChannel returns the stored subscriptions of the
\* channel, each once and no other, in ascending order of Repository.
C10_ByChannelSorted ==
    (last.op = "GetSubscriptionsByChannel" /\ last.readOK) =>
        /\ last.err = NoError
        /\ Elems(last.subs) = StoredOfChannel(last.channelID)
        /\ Len(last.subs) = Cardinality(StoredOfChannel(last.channelID))
        /\ \A i, j \in 1..Len(last.subs) :
              i < j => ~StrLess(last.subs[j].Repository, last.subs[i].Repository)

\* C10 witness: a channel with subscriptions under two repository keys.
C10_Witness ==
    /\ last.op = "GetSubscriptionsByChannel"
    /\ last.readOK
    /\ Len(last.subs) = 2
    /\ last.subs[1].Repository # last.subs[2].Repository

(***************************************************************************)
(* The store as encoding/json writes it (specification SpecRoundTrip).     *)
(*                                                                         *)
(* StoreSubscriptions hands json.Marshal of the aggregate to the store and *)
(* GetSubscriptions has the store decode it.  Here the stored value is the *)
(* JSON document: objects, arrays, null, booleans and string literals,     *)
(* each literal the escaped text between its quotes.  A Go slice is a      *)
(* record of its nil flag and its elements, so that nil and the empty      *)
(* slice are told apart; every string is a sequence of characters.         *)
(***************************************************************************)
\* A byte that is not valid UTF-8, and U+FFFD, which json.Marshal writes for it.
InvalidByte == "xFF"
ReplacementChar == "uFFFD"

\* encoding/json, the encoder of strings: what it writes for one character
\* (quote and backslash escaped, the HTML characters written as \u00XX, an
\* invalid byte as the escape of U+FFFD).
JsonEscapeChar(c) ==
    IF c = "\"" THEN <<"\\", "\"">>
    ELSE IF c = "\\" THEN <<"\\", "\\">>
    ELSE IF c = "<" THEN <<"\\", "u", "0", "0", "3", "c">>
    ELSE IF c = ">" THEN <<"\\", "u", "0", "0", "3", "e">>
    ELSE IF c = "&" THEN <<"\\", "u", "0", "0", "2", "6">>
    ELSE IF c = InvalidByte THEN <<"\\", "u", "f", "f", "f", "d">>
    ELSE <<c>>

RECURSIVE JsonEscape(_)
JsonEscape(s) ==
    IF s = <<>> THEN <<>> ELSE JsonEscapeChar(Head(s)) \o JsonEscape(Tail(s))

\* encoding/json, the decoder of strings: the character of a \uXXXX escape.
JsonUnicodeChar(hex) ==
    IF hex = <<"0", "0", "3", "c">> THEN "<"
    ELSE IF hex = <<"0", "0", "3", "e">> THEN ">"
    ELSE IF hex = <<"0", "0", "2", "6">> THEN "&"
    ELSE ReplacementChar

\* encoding/json, the decoder of strings: the text of a literal.
RECURSIVE JsonUnescape(_)
JsonUnescape(lit) ==
    IF lit = <<>> THEN <<>>
    ELSE IF Head(lit) # "\\" THEN <<Head(lit)>> \o JsonUnescape(Tail(lit))
    ELSE IF lit[2] = "u"
    THEN <<JsonUnicodeChar(SubSeq(lit, 3, 6))>> \o JsonUnescape(SubSeq(lit, 7, Len(lit)))
    ELSE <<lit[2]>> \o JsonUnescape(SubSeq(lit, 3, Len(lit)))

\* Go slices of strings.
NilSlice == [nil |-> TRUE, elems |-> <<>>]
SliceOf(elems) == [nil |-> FALSE, elems |-> elems]

\* JSON values.
JsonNull == [t |-> "null"]
JsonBool(b) == [t |-> "bool", v |-> b]
JsonString(s) == [t |-> "string", lit |-> JsonEscape(s)]
JsonArray(elems) == [t |-> "array", elems |-> elems]
\* The object of a struct (its fields by name) and the object of a map (its
\* members in the order written, each key a string literal).
JsonStruct(fields) == [t |-> "struct", fields |-> fields]
JsonMap(members) == [t |-> "map", members |-> members]

\* json.Marshal of SubscriptionFlags
MarshalFlags(flags) ==
    JsonStruct([ExcludeOrgMembers |-> JsonBool(flags.ExcludeOrgMembers),
                IncludeOnlyOrgMembers |-> JsonBool(flags.IncludeOnlyOrgMembers),
                RenderStyle |-> JsonString(flags.RenderStyle),
                ExcludeRepository |->
                    IF flags.ExcludeRepository.nil THEN JsonNull
                    ELSE JsonArray([i \in 1..Len(flags.ExcludeRepository.elems) |->
                                       JsonString(flags.ExcludeRepository.elems[i])])])

\* json.Marshal of Subscription
MarshalSubscription(sub) ==
    JsonStruct([ChannelID |-> JsonString(sub.ChannelID),
                CreatorID |-> JsonString(sub.CreatorID),
                Features |-> JsonString(sub.Features),
                Flags |-> MarshalFlags(sub.Flags),
                Repository |-> JsonString(sub.Repository)])

\* The keys of a map in the order json.Marshal writes them: sorted.
RECURSIVE SortedKeys(_)
SortedKeys(ks) ==
    IF ks = {} THEN <<>>
    ELSE LET least == CHOOSE k \in ks : \A o \in ks \ {k} : StrLess(k, o)
         IN  <<least>> \o SortedKeys(ks \ {least})

\* json.Marshal of Subscriptions
MarshalSubscriptions(subs) ==
    LET keys == SortedKeys(DOMAIN subs.Repositories)
    IN  JsonStruct([Repositories |->
            JsonMap([i \in 1..Len(keys) |->
                [key |-> JsonEscape(keys[i]),
                 value |-> JsonArray([j \in 1..Len(subs.Repositories[keys[i]]) |->
                              MarshalSubscription(subs.Repositories[keys[i]][j])])]])])

\* json.Unmarshal into SubscriptionFlags
UnmarshalFlags(j) ==
    [ExcludeOrgMembers |-> j.fields.ExcludeOrgMembers.v,
     IncludeOnlyOrgMembers |-> j.fields.IncludeOnlyOrgMembers.v,
     RenderStyle |-> JsonUnescape(j.fields.RenderStyle.lit),
     ExcludeRepository |->
        IF j.fields.ExcludeRepository.t = "null" THEN NilSlice
        ELSE SliceOf([i \in 1..Len(j.fields.ExcludeRepository.elems) |->
                         JsonUnescape(j.fields.ExcludeRepository.elems[i].lit)])]

\* json.Unmarshal into Subscription
UnmarshalSubscription(j) ==
    [ChannelID |-> JsonUnescape(j.fields.ChannelID.lit),
     CreatorID |-> JsonUnescape(j.fields.CreatorID.lit),
     Features |-> JsonUnescape(j.fields.Features.lit),
     Flags |-> UnmarshalFlags(j.fields.Flags),
     Repository |-> JsonUnescape(j.fields.Repository.lit)]

\* json.Unmarshal into Subscriptions
UnmarshalSubscriptions(j) ==
    LET members == j.fields.Repositories.members
        KeyOf(i) == JsonUnescape(members[i].key)
    IN  [Repositories |->
            [k \in {KeyOf(i) : i \in 1..Len(members)} |->
                LET i == CHOOSE n \in 1..Len(members) :
                             /\ KeyOf(n) = k
                             /\ \A o \in (n + 1)..Len(members) : KeyOf(o) # k
                IN  [n \in 1..Len(members[i].value.elems) |->
                        UnmarshalSubscription(members[i].value.elems[n])]]]

\* store.Get(SubscriptionsKey, &subscriptions): what the store decodes.
JsonGet(stored) ==
    IF stored.stored
    THEN [stored |-> TRUE, subs |-> UnmarshalSubscriptions(stored.doc)]
    ELSE NothingStored

\* The subscriptions AddSubscription is given in the round trip.
JsonChannelIDs == {<<"c", "1">>, <<"c", "2">>}
JsonRepoKeys == {<<"a", "/">>, <<"a", "/", "w">>}
JsonCreator == <<"u", "1">>
Features_pulls == <<"p", "u", "l", "l", "s">>
\* issues,label:"a<b\"
Features_label ==
    <<"i", "s", "s", "u", "e", "s", ",", "l", "a", "b", "e", "l", ":",
      "\"", "a", "<", "b", "\\", "\"">>
Features_invalid == <<"p", "u", "l", "l", "s", ",", "l", "a", "b", "e", "l", ":", InvalidByte>>

JsonSubscriptionOf(channelID, features, exclude, repository) ==
    [ChannelID |-> channelID, CreatorID |-> JsonCreator, Features |-> features,
     Flags |-> [ExcludeOrgMembers |-> FALSE, IncludeOnlyOrgMembers |-> TRUE,
                RenderStyle |-> <<>>, ExcludeRepository |-> exclude],
     Repository |-> repository]

\* For repository key repo: a subscription as Subscribe builds it, for either
\* channel; and for the first channel one with the Repository field empty (as
\* older versions stored them), one with a label filter and an exclusion list,
\* one with an empty exclusion list, and one whose features are not valid UTF-8.
JsonSubInputs(repo) ==
    {JsonSubscriptionOf(c, Features_pulls, NilSlice, repo) : c \in JsonChannelIDs}
    \cup {JsonSubscriptionOf(<<"c", "1">>, Features_pulls, NilSlice, <<>>),
          JsonSubscriptionOf(<<"c", "1">>, Features_label,
                             SliceOf(<< <<"a", "/", "w">> >>), repo),
          JsonSubscriptionOf(<<"c", "1">>, Features_pulls, SliceOf(<<>>), repo),
          JsonSubscriptionOf(<<"c", "1">>, Features_invalid, NilSlice, repo)}

\* AddSubscription(repo, sub) on the JSON store
JsonAddSubscription(repo, sub, readOK, writeOK) ==
    LET g == GetSubscriptions(JsonGet(jkv), readOK)
        modified == AddSubscriptionModify(g.subs, repo, sub)
        st == StoreSubscriptions(JsonGet(jkv), modified, writeOK)
    IN  /\ jlast.op = "none"
        /\ Total(modified) <= MaxSubs
        /\ IF g.err # NoError
           THEN /\ jkv' = jkv
                /\ jlast' = [op |-> "AddSubscription", repo |-> repo, sub |-> sub,
                             err |-> Wrap(g.err, "could not get subscriptions")]
           ELSE /\ jkv' = IF st.err = NoError
                          THEN [stored |-> TRUE, doc |-> MarshalSubscriptions(st.stored.subs)]
                          ELSE jkv
                /\ jlast' = [op |-> "AddSubscription", repo |-> repo, sub |-> sub,
                             err |-> IF st.err # NoError
                                     THEN Wrap(st.err, "could not store subscriptions")
                                     ELSE NoError]
        /\ UNCHANGED notJsonVars

\* GetSubscriptionsByChannel(sub.ChannelID), called after AddSubscription(repo, sub)
JsonGetSubscriptionsByChannel(readOK) ==
    \E order \in IterationOrders(GetSubscriptions(JsonGet(jkv), readOK).subs.Repositories) :
        LET r == GetSubscriptionsByChannel(JsonGet(jkv), jlast.sub.ChannelID, order, readOK)
        IN  /\ jlast.op = "AddSubscription"
            /\ jlast' = [op |-> "GetSubscriptionsByChannel", repo |-> jlast.repo,
                         sub |-> jlast.sub, added |-> jlast.err = NoError,
                         err |-> r.err, subs |-> r.subs]
            /\ jkv' = jkv
            /\ UNCHANGED notJsonVars

\* The caller has taken the result; the next call may start.
JsonReturn ==
    /\ jlast.op # "none"
    /\ jlast' = [op |-> "none"]
    /\ jkv' = jkv
    /\ UNCHANGED notJsonVars

NextRoundTrip ==
    \/ JsonReturn
    \/ \E repo \in JsonRepoKeys : \E sub \in JsonSubInputs(repo) :
          \E readOK, writeOK \in BOOLEAN : JsonAddSubscription(repo, sub, readOK, writeOK)
    \/ \E readOK \in BOOLEAN : JsonGetSubscriptionsByChannel(readOK)

SpecRoundTrip == Init /\ [][NextRoundTrip]_vars

\* Whether a text is valid UTF-8.
ValidUTF8(s) == \A i \in 1..Len(s) : s[i] # InvalidByte
ValidSubscription(sub) ==
    /\ ValidUTF8(sub.ChannelID) /\ ValidUTF8(sub.CreatorID) /\ ValidUTF8(sub.Features)
    /\ ValidUTF8(sub.Repository) /\ ValidUTF8(sub.Flags.RenderStyle)
    /\ \A i \in 1..Len(sub.Flags.ExcludeRepository.elems) :
          ValidUTF8(sub.Flags.ExcludeRepository.elems[i])

JsonListedAfterAdd ==
    jlast.op = "GetSubscriptionsByChannel" /\ jlast.added /\ jlast.err = NoError

RECURSIVE SplitBy(_, _)
SplitBy(s, sep) ==
    IF \E i \in 1..Len(s) : s[i] = sep
    THEN LET i == CHOOSE n \in 1..Len(s) :
                      s[n] = sep /\ \A j \in 1..(n - 1) : s[j] # sep
         IN  <<SubSeq(s, 1, i - 1)>> \o SplitBy(SubSeq(s, i + 1, Len(s)), sep)
    ELSE <<s>>

\* strings.TrimSpace, for texts whose only white space is the space character
TrimSpace(s) ==
    IF \A i \in 1..Len(s) : s[i] = " "
    THEN <<>>
    ELSE LET lo == CHOOSE i \in 1..Len(s) :
                       s[i] # " " /\ \A j \in 1..(i - 1) : s[j] = " "
             hi == CHOOSE i \in 1..Len(s) :
                       s[i] # " " /\ \A j \in (i + 1)..Len(s) : s[j] = " "
         IN  SubSeq(s, lo, hi)

\* Configuration.getOrganizations: the organizations of the GitHubOrg setting,
\* a comma-separated list, each trimmed and in lower case.
getOrganizations(config) ==
    IF config.GitHubOrg = <<>> THEN <<>>
    ELSE LET list == SplitBy(config.GitHubOrg, ",")
         IN  [i \in 1..Len(list) |-> TrimSpace(ToLower(list[i]))]

\* checkOrg: NoError, or the error for an organization that is not configured.
checkOrg(config, org) ==
    LET orgList == getOrganizations(config)
    IN  IF Len(orgList) = 0 THEN NoError
        ELSE IF \E i \in 1..Len(orgList) : orgList[i] = ToLower(org) THEN NoError
        ELSE <<"only repositories in the configured organization(s) are supported">>

\* isOrganizationLocked
isOrganizationLocked(config) == TrimSpace(config.GitHubOrg) # <<>>

\* A plausible bug: the key keeps the letter case it was given in.
SubscribeLowerNoFold(s) == s

\* Subscribe: owner = strings.ToLower(owner), repo = strings.ToLower(repo)
SubscribeLower(s) == ToLower(s)

\* The error of a nil pointer dereference, which ends the call in a panic.
NilDereference == <<"runtime error: invalid memory address or nil pointer dereference">>

\* Subscribe, the lookup of the organization or the repository on GitHub; gh
\* says which of Organizations.Get, Users.Get and Repositories.Get find the
\* name (a lookup that does not find it returns nil and an error).  When the
\* owner is a user and not an organization, cErr is the error of
\* Organizations.Get while err, assigned again by Users.Get, is nil, and
\* err.Error() in the logging of cErr dereferences nil.
SubscribeLookup(owner, repo, gh) ==
    IF repo = <<>>
    THEN IF gh.org THEN NoError
         ELSE IF ~gh.user THEN <<"Unknown organization">>
         ELSE NilDereference
    ELSE IF ~gh.repo THEN <<"unknown repository">>
         ELSE NoError

\* AddSubscription as a function of the store: its error and the store after it.
AddSubscriptionOutcome(stored, repo, sub, readOK, writeOK) ==
    LET g == GetSubscriptions(stored, readOK)
        st == StoreSubscriptions(stored, AddSubscriptionModify(g.subs, repo, sub), writeOK)
    IN  IF g.err # NoError
        THEN [err |-> Wrap(g.err, "could not get subscriptions"), stored |-> stored]
        ELSE [err |-> IF st.err # NoError THEN Wrap(st.err, "could not store subscriptions")
                      ELSE NoError,
              stored |-> st.stored]

\* Subscribe as a function of the store: its error and the store after it.
SubscribeOutcome(stored, userID, ownerArg, repoArg, channelID, features, flags, config, gh, readOK, writeOK) ==
    LET owner == SubscribeLower(ownerArg)
        repo == SubscribeLower(repoArg)
        unchanged(err) == [err |-> err, stored |-> stored]
        key == fullNameFromOwnerAndRepo(owner, repo)
        sub == [ChannelID |-> channelID, CreatorID |-> userID, Features |-> features,
                Repository |-> key, Flags |-> flags]
        added == AddSubscriptionOutcome(stored, key, sub, readOK, writeOK)
    IN  IF ownerArg = <<>> THEN unchanged(<<"invalid repository">>)
        ELSE IF checkOrg(config, owner) # NoError
        THEN unchanged(Wrap(checkOrg(config, owner), "organization not supported"))
        ELSE IF flags.ExcludeOrgMembers /\ ~isOrganizationLocked(config)
        THEN unchanged(<<"Unable to set --exclude-org-member flag. The GitHub plugin is not locked to a single organization.">>)
        ELSE IF flags.IncludeOnlyOrgMembers /\ ~isOrganizationLocked(config)
        THEN unchanged(<<"Unable to set --include-only-org-members flag. The GitHub plugin is not locked to a single organization.">>)
        ELSE IF SubscribeLookup(owner, repo, gh) # NoError
        THEN unchanged(SubscribeLookup(owner, repo, gh))
        ELSE IF added.err # NoError
        THEN [err |-> Wrap(added.err, "could not add subscription"), stored |-> added.stored]
        ELSE added

\* SubscribeOrg as a function of the store.
SubscribeOrgOutcome(stored, userID, org, channelID, features, flags, config, gh, readOK, writeOK) ==
    IF org = <<>> THEN [err |-> <<"invalid organization">>, stored |-> stored]
    ELSE SubscribeOutcome(stored, userID, org, <<>>, channelID, features, flags,
                          config, gh, readOK, writeOK)

\* Unsubscribe as a function of the store: its error and the store after it.
UnsubscribeOutcome(stored, channelID, repo, owner, readOK, writeOK) ==
    LET repoWithOwner == owner \o <<"/">> \o repo
        g == GetSubscriptions(stored, readOK)
        repoSubs == MapGet(g.subs.Repositories, repoWithOwner)
        st == StoreSubscriptions(stored, UnsubscribeModify(g.subs, repoWithOwner, channelID),
                                 writeOK)
    IN  IF g.err # NoError
        THEN [err |-> Wrap(g.err, "could not get subscriptions"), stored |-> stored]
        ELSE IF ~HasKey(g.subs.Repositories, repoWithOwner)
                \/ ~UnsubscribeRemoved(repoSubs, channelID)
        THEN [err |-> NoError, stored |-> stored]
        ELSE [err |-> IF st.err # NoError THEN Wrap(st.err, "could not store subscriptions")
                      ELSE NoError,
              stored |-> st.stored]

\* The inputs of Subscribe: owners and repositories in the letter case the
\* command gives them, the flags, the GitHubOrg setting (none, or a list of two
\* organizations), what GitHub finds, and whether the store reads and writes.
SubscribeOwnerInputs == {<<>>, <<"A">>, <<"b">>}
SubscribeRepoInputs == {<<>>, <<"W">>}
PlainFlags == FlagsOf(<<>>)
ExcludeMembersFlags == [FlagsOf(<<>>) EXCEPT !.ExcludeOrgMembers = TRUE]
OnlyMembersFlags == [FlagsOf(<<>>) EXCEPT !.IncludeOnlyOrgMembers = TRUE]
Unlocked == [GitHubOrg |-> <<>>]
Locked == [GitHubOrg |-> <<" ", "A", ",", "c">>]
AllFound == [org |-> TRUE, user |-> TRUE, repo |-> TRUE]
UserFound == [org |-> FALSE, user |-> TRUE, repo |-> FALSE]
NoneFound == [org |-> FALSE, user |-> FALSE, repo |-> FALSE]
\* The flags of a call and its surroundings: the setting, what GitHub finds,
\* the store.
CaseOf(flags, config, gh, readOK, writeOK) ==
    [flags |-> flags, config |-> config, gh |-> gh, readOK |-> readOK, writeOK |-> writeOK]
SubscribeCases ==
    {CaseOf(PlainFlags, Unlocked, AllFound, TRUE, TRUE),
     CaseOf(PlainFlags, Locked, AllFound, TRUE, TRUE),
     CaseOf(PlainFlags, Unlocked, UserFound, TRUE, TRUE),
     CaseOf(PlainFlags, Unlocked, NoneFound, TRUE, TRUE),
     CaseOf(PlainFlags, Unlocked, AllFound, FALSE, TRUE),
     CaseOf(PlainFlags, Locked, AllFound, TRUE, FALSE),
     CaseOf(ExcludeMembersFlags, Unlocked, AllFound, TRUE, TRUE),
     CaseOf(OnlyMembersFlags, Unlocked, AllFound, TRUE, TRUE)}
StoreInputs ==
    {[readOK |-> TRUE, writeOK |-> TRUE], [readOK |-> FALSE, writeOK |-> TRUE],
     [readOK |-> TRUE, writeOK |-> FALSE]}
\* Owners and repositories as an unsubscribe command names them.
UnsubscribeOwnerInputs == {<<>>, <<"a">>, <<"A">>, <<"b">>}
UnsubscribeRepoInputs == {<<>>, <<"w">>, <<"W">>}

\* Subscribe(ctx, githubClient, userID, owner, repo, channelID, features, flags)
SubscribeCall(userID, owner, repo, channelID, features, case) ==
    LET r == SubscribeOutcome(kv, userID, owner, repo, channelID, features, case.flags,
                              case.config, case.gh, case.readOK, case.writeOK)
    IN  /\ last.op = "none"
        /\ Total(r.stored.subs) <= MaxSubs
        /\ kv' = r.stored
        /\ last' = [op |-> "Subscribe", owner |-> owner, repo |-> repo,
                    channelID |-> channelID, pre |-> kv, err |-> r.err]
        /\ UNCHANGED <<concVars, hookVars, auxVars>>

\* SubscribeOrg(ctx, githubClient, userID, org, channelID, features, flags)
SubscribeOrgCall(userID, org, channelID, features, case) ==
    LET r == SubscribeOrgOutcome(kv, userID, org, channelID, features, case.flags,
                                 case.config, case.gh, case.readOK, case.writeOK)
    IN  /\ last.op = "none"
        /\ Total(r.stored.subs) <= MaxSubs
        /\ kv' = r.stored
        /\ last' = [op |-> "SubscribeOrg", owner |-> org, repo |-> <<>>,
                    channelID |-> channelID, pre |-> kv, err |-> r.err]
        /\ UNCHANGED <<concVars, hookVars, auxVars>>

\* handleUnsubscribe, from the owner and repository its parameter names to the
\* return of Unsubscribe
handleUnsubscribeCall(channelID, ownerArg, repoArg, io) ==
    LET owner == ToLower(ownerArg)
        repo == ToLower(repoArg)
        r == UnsubscribeOutcome(kv, channelID, repo, owner, io.readOK, io.writeOK)
    IN  /\ last.op = "none"
        /\ IF ownerArg = <<>> /\ repoArg = <<>>
           THEN /\ kv' = kv
                /\ last' = [op |-> "handleUnsubscribe", owner |-> ownerArg, repo |-> repoArg,
                            channelID |-> channelID, pre |-> kv,
                            text |-> "invalid repository", called |-> FALSE]
           ELSE /\ kv' = r.stored
                /\ last' = [op |-> "handleUnsubscribe", owner |-> ownerArg, repo |-> repoArg,
                            channelID |-> channelID, pre |-> kv,
                            text |-> IF r.err # NoError
                                     THEN "Encountered an error trying to unsubscribe. Please try again."
                                     ELSE "",
                            called |-> TRUE]
        /\ UNCHANGED <<concVars, hookVars, auxVars>>

NextSubscribe ==
    \/ Return
    \/ \E owner \in SubscribeOwnerInputs, repo \in SubscribeRepoInputs, channelID \in ChannelIDs,
          features \in FeatureInputs, case \in SubscribeCases :
              SubscribeCall("u1", owner, repo, channelID, features, case)
    \/ \E org \in SubscribeOwnerInputs, channelID \in ChannelIDs,
          features \in FeatureInputs, case \in SubscribeCases :
              SubscribeOrgCall("u1", org, channelID, features, case)
    \/ \E channelID \in ChannelIDs, owner \in UnsubscribeOwnerInputs,
          repo \in UnsubscribeRepoInputs, io \in StoreInputs :
              handleUnsubscribeCall(channelID, owner, repo, io)
    \/ \E fullName \in FullNameInputs, readOK \in BOOLEAN :
          GetSubscribedChannelsForRepositoryCall(fullName, FALSE, CreatorIDs, readOK)

SpecSubscribe == Init /\ [][NextSubscribe]_vars

\* The key of the owner and repository a command names.
LowerKey(owner, repo) == ToLower(owner) \o <<"/">> \o ToLower(repo)

\* C12: every key of the stored aggregate is in lower case and is the
\* Repository field of the subscriptions under it; a successful Subscribe
\* leaves the channel's subscription under the lower-case key of the owner and
\* repository given; an event on a public repository finds every subscription
\* stored for its name whatever the letter case of the name in the payload;
\* and an unsubscribe command leaves no subscription of the channel under the
\* lower-case key of the repository it names.
C12_LowercaseKeys ==
    /\ \A k \in DOMAIN StoredLists :
          k = ToLower(k) /\ \A s \in Elems(StoredLists[k]) : s.Repository = k
    /\ (last.op \in {"Subscribe", "SubscribeOrg"} /\ last.err = NoError) =>
          \E s \in Elems(MapGet(StoredLists, LowerKey(last.owner, last.repo))) :
              s.ChannelID = last.channelID /\ s.Repository = LowerKey(last.owner, last.repo)
    /\ (last.op = "GetSubscribedChannelsForRepository" /\ last.readOK /\ ~last.private) =>
          \A k \in DOMAIN StoredLists : \A s \in Elems(StoredLists[k]) :
              ToLower(last.fullName) = k => s \in Elems(last.subs)
    /\ (last.op = "handleUnsubscribe" /\ last.called /\ last.text = "") =>
          \A s \in Elems(MapGet(StoredLists, LowerKey(last.owner, last.repo))) :
              s.ChannelID # last.channelID

\* C12 witness: the repository subscribed to as A/W is unsubscribed from as
\* a/w, or found by an event that names it A/W.
C12_Witness ==
    \/ /\ last.op = "handleUnsubscribe"
       /\ last.owner = <<"a">> /\ last.repo = <<"w">>
       /\ last.text = ""
       /\ \E s \in Elems(MapGet(PreLists, <<"a", "/", "w">>)) : s.ChannelID = last.channelID
    \/ /\ last.op = "GetSubscribedChannelsForRepository"
       /\ last.fullName = <<"A", "/", "W">>
       /\ Len(last.subs) > 0

\* C20: a Subscribe or SubscribeOrg that returns an error (or ends in a
\* panic) leaves the stored aggregate as it was before the call.
C20_ErrorLeavesStore ==
    (last.op \in {"Subscribe", "SubscribeOrg"} /\ last.err # NoError) => kv = last.pre

\* C20 witness: with a subscription stored, a Subscribe fails in the store
\* after GitHub has found the repository.
C20_Witness ==
    /\ last.op = "Subscribe"
    /\ last.err # NoError
    /\ last.err[1] = "could not add subscription"
    /\ Total(last.pre.subs) > 0

(***************************************************************************)
(* The feature lists of the subscribe command (specification              *)
(* SpecFeatures): validateFeatures, checkFeatureConflict and the feature   *)
(* predicates of Subscription, each applied to a feature list drawn at the *)
(* start.  A feature is a sequence of characters.                          *)
(***************************************************************************)
\* Longest feature list drawn over all features.
MaxFeatures == 2
\* Longest feature list drawn over the features that conflict.
MaxConflictFeatures == 4

featureIssueCreation ==
    <<"i", "s", "s", "u", "e", "_", "c", "r", "e", "a", "t", "i", "o", "n", "s">>
featureIssues ==
    <<"i", "s", "s", "u", "e", "s">>
featurePulls ==
    <<"p", "u", "l", "l", "s">>
featurePullsMerged ==
    <<"p", "u", "l", "l", "s", "_", "m", "e", "r", "g", "e", "d">>
featurePullsCreated ==
    <<"p", "u", "l", "l", "s", "_", "c", "r", "e", "a", "t", "e", "d">>
featurePushes ==
    <<"p", "u", "s", "h", "e", "s">>
featureCreates ==
    <<"c", "r", "e", "a", "t", "e", "s">>
featureDeletes ==
    <<"d", "e", "l", "e", "t", "e", "s">>
featureIssueComments ==
    <<"i", "s", "s", "u", "e", "_", "c", "o", "m", "m", "e", "n", "t", "s">>
featurePullReviews ==
    <<"p", "u", "l", "l", "_", "r", "e", "v", "i", "e", "w", "s">>
featureStars ==
    <<"s", "t", "a", "r", "s">>
featureReleases ==
    <<"r", "e", "l", "e", "a", "s", "e", "s">>
featureWorkflowFailure ==
    <<"w", "o", "r", "k", "f", "l", "o", "w", "_", "f", "a", "i", "l", "u", "r", "e">>
featureWorkflowSuccess ==
    <<"w", "o", "r", "k", "f", "l", "o", "w", "_", "s", "u", "c", "c", "e", "s", "s">>
featureDiscussions ==
    <<"d", "i", "s", "c", "u", "s", "s", "i", "o", "n", "s">>
featureDiscussionComments ==
    <<"d", "i", "s", "c", "u", "s", "s", "i", "o", "n", "_", "c", "o", "m", "m", "e", "n", "t", "s">>

validFeatures ==
    {featureIssueCreation, featureIssues, featurePulls, featurePullsMerged,
     featurePullsCreated, featurePushes, featureCreates, featureDeletes,
     featureIssueComments, featurePullReviews, featureStars, featureReleases,
     featureWorkflowFailure, featureWorkflowSuccess, featureDiscussions,
     featureDiscussionComments}

\* strings.HasPrefix
HasPrefix(s, prefix) == Len(s) >= Len(prefix) /\ SubSeq(s, 1, Len(prefix)) = prefix

\* strings.Contains
Contains(s, substr) ==
    \E i \in 0..(Len(s) - Len(substr)) : SubSeq(s, i + 1, i + Len(substr)) = substr

\* strings.Join
RECURSIVE Join(_, _)
Join(elems, sep) ==
    IF elems = <<>> THEN <<>>
    ELSE IF Len(elems) = 1 THEN elems[1]
    ELSE elems[1] \o sep \o Join(Tail(elems), sep)

\* SliceContainsString
RECURSIVE SliceContainsString(_, _)
SliceContainsString(a, x) ==
    IF a = <<>> THEN FALSE
    ELSE IF x = Head(a) THEN TRUE
    ELSE SliceContainsString(Tail(a), x)

\* validateFeatures, the first loop: acc holds valid, invalidFeatures and hasLabel.
RECURSIVE validateFeaturesLoop(_, _)
validateFeaturesLoop(features, acc) ==
    IF features = <<>> THEN acc
    ELSE LET f == Head(features)
         IN  IF f \in validFeatures THEN validateFeaturesLoop(Tail(features), acc)
             ELSE IF HasPrefix(f, <<"l", "a", "b", "e", "l">>)
             THEN validateFeaturesLoop(Tail(features), [acc EXCEPT !.hasLabel = TRUE])
             ELSE validateFeaturesLoop(Tail(features),
                      [acc EXCEPT !.invalidFeatures = Append(@, f), !.valid = FALSE])

\* A plausible bug: issue_creations does not count for a label.
LabelHasBaseWithoutCreations(features) ==
    \E i \in 1..Len(features) : features[i] = featurePulls \/ features[i] = featureIssues

\* validateFeatures, the second loop: whether the list has a feature a label
\* can go with.
LabelHasBase(features) ==
    \E i \in 1..Len(features) :
        \/ features[i] = featurePulls
        \/ features[i] = featureIssues
        \/ features[i] = featureIssueCreation

\* validateFeatures
validateFeatures(features) ==
    LET r == validateFeaturesLoop(features,
                 [valid |-> TRUE, invalidFeatures |-> <<>>, hasLabel |-> FALSE])
    IN  [valid |-> IF r.valid /\ r.hasLabel THEN LabelHasBase(features) ELSE r.valid,
         invalidFeatures |-> r.invalidFeatures]

\* A plausible bug: the conflict of pulls and pulls_created is reported before
\* that of pulls and pulls_merged.
checkFeatureConflictCreatedFirst(fs) ==
    IF SliceContainsString(fs, featureIssues) /\ SliceContainsString(fs, featureIssueCreation)
    THEN [ok |-> FALSE, conflicting |-> <<featureIssues, featureIssueCreation>>]
    ELSE IF SliceContainsString(fs, featurePulls) /\ SliceContainsString(fs, featurePullsCreated)
    THEN [ok |-> FALSE, conflicting |-> <<featurePulls, featurePullsCreated>>]
    ELSE IF SliceContainsString(fs, featurePulls) /\ SliceContainsString(fs, featurePullsMerged)
    THEN [ok |-> FALSE, conflicting |-> <<featurePulls, featurePullsMerged>>]
    ELSE [ok |-> TRUE, conflicting |-> <<>>]

\* checkFeatureConflict
checkFeatureConflict(fs) ==
    IF SliceContainsString(fs, featureIssues) /\ SliceContainsString(fs, featureIssueCreation)
    THEN [ok |-> FALSE, conflicting |-> <<featureIssues, featureIssueCreation>>]
    ELSE IF SliceContainsString(fs, featurePulls) /\ SliceContainsString(fs, featurePullsMerged)
    THEN [ok |-> FALSE, conflicting |-> <<featurePulls, featurePullsMerged>>]
    ELSE IF SliceContainsString(fs, featurePulls) /\ SliceContainsString(fs, featurePullsCreated)
    THEN [ok |-> FALSE, conflicting |-> <<featurePulls, featurePullsCreated>>]
    ELSE [ok |-> TRUE, conflicting |-> <<>>]

\* The feature predicates of Subscription; features is s.Features.String().
Pulls(features) == Contains(features, featurePulls)
PullsCreated(features) == Contains(features, featurePullsCreated)
PullsMerged(features) == Contains(features, featurePullsMerged)
IssueCreations(features) == Contains(features, featureIssueCreation)
Issues(features) == Contains(features, featureIssues)
Pushes(features) == Contains(features, featurePushes)
Creates(features) == Contains(features, featureCreates)
Deletes(features) == Contains(features, featureDeletes)
IssueComments(features) == Contains(features, featureIssueComments)
PullReviews(features) == Contains(features, featurePullReviews)
Stars(features) == Contains(features, featureStars)
Workflows(features) ==
    Contains(features, featureWorkflowFailure) \/ Contains(features, featureWorkflowSuccess)
Release(features) == Contains(features, featureReleases)
Discussions(features) == Contains(features, featureDiscussions)
DiscussionComments(features) == Contains(features, featureDiscussionComments)

\* The features drawn: the known ones, label filters, a feature that only
\* begins with label, misspelt features and the empty feature.
Label_bug == <<"l", "a", "b", "e", "l", ":", "\"", "b", "u", "g", "\"">>
Label_pushes == <<"l", "a", "b", "e", "l", ":", "\"", "p", "u", "s", "h", "e", "s", "\"">>
Feature_labels == <<"l", "a", "b", "e", "l", "s">>
Feature_push == <<"p", "u", "s", "h">>
Feature_issue == <<"i", "s", "s", "u", "e">>
FeatureUniverse ==
    validFeatures \cup {Label_bug, Label_pushes, Feature_labels, Feature_push,
                        Feature_issue, <<>>}
ConflictFeatures ==
    {featureIssues, featureIssueCreation, featurePulls, featurePullsMerged,
     featurePullsCreated}
\* The lists of at most n elements of S.
ListsOver(S, n) == UNION {[1..k -> S] : k \in 0..n}
FeatureListInputs ==
    ListsOver(FeatureUniverse, MaxFeatures) \cup ListsOver(ConflictFeatures, MaxConflictFeatures)

InitFeatures ==
    /\ StoreIdle
    /\ ConcIdle
    /\ HookIdle
    /\ JsonIdle
    /\ MuteIdle
    /\ OAuthIdle
    /\ ApiIdle
    /\ arg \in FeatureListInputs
    /\ res = [op |-> "none"]

\* validateFeatures(features)
validateFeaturesCall ==
    /\ res.op = "none"
    /\ res' = [op |-> "validateFeatures", valid |-> validateFeatures(arg).valid,
               invalidFeatures |-> validateFeatures(arg).invalidFeatures]
    /\ UNCHANGED <<notPureVars, arg>>

\* checkFeatureConflict(fs)
checkFeatureConflictCall ==
    /\ res.op = "none"
    /\ res' = [op |-> "checkFeatureConflict", ok |-> checkFeatureConflict(arg).ok,
               conflicting |-> checkFeatureConflict(arg).conflicting]
    /\ UNCHANGED <<notPureVars, arg>>

\* The predicates of a subscription whose Features is the list joined by commas.
FeaturePredicatesCall ==
    LET features == Join(arg, <<",">>)
    IN  /\ res.op = "none"
        /\ res' = [op |-> "predicates", features |-> features,
                   Pulls |-> Pulls(features), PullsCreated |-> PullsCreated(features),
                   PullsMerged |-> PullsMerged(features),
                   IssueCreations |-> IssueCreations(features), Issues |-> Issues(features),
                   Pushes |-> Pushes(features), Creates |-> Creates(features),
                   Deletes |-> Deletes(features), IssueComments |-> IssueComments(features),
                   PullReviews |-> PullReviews(features), Stars |-> Stars(features),
                   Workflows |-> Workflows(features), Release |-> Release(features),
                   Discussions |-> Discussions(features),
                   DiscussionComments |-> DiscussionComments(features)]
        /\ UNCHANGED <<notPureVars, arg>>

NextFeatures ==
    \/ validateFeaturesCall
    \/ checkFeatureConflictCall
    \/ FeaturePredicatesCall

SpecFeatures == InitFeatures /\ [][NextFeatures]_vars

\* Whether a feature counts as a label filter: it begins with "label".
BeginsWithLabel(f) ==
    Len(f) >= 5 /\ f[1] = "l" /\ f[2] = "a" /\ f[3] = "b" /\ f[4] = "e" /\ f[5] = "l"
Recognised(f) == f \in validFeatures \/ BeginsWithLabel(f)
Unrecognised(f) == ~Recognised(f)

C14_CheckFeatureConflict ==
    res.op = "checkFeatureConflict" =>
        LET has(f) == f \in Elems(arg)
            issuesPair == has(featureIssues) /\ has(featureIssueCreation)
            mergedPair == has(featurePulls) /\ has(featurePullsMerged)
            createdPair == has(featurePulls) /\ has(featurePullsCreated)
        IN  /\ ~res.ok <=> (issuesPair \/ mergedPair \/ createdPair)
            /\ issuesPair => res.conflicting = <<featureIssues, featureIssueCreation>>
            /\ (~issuesPair /\ mergedPair) =>
                  res.conflicting = <<featurePulls, featurePullsMerged>>
            /\ (~issuesPair /\ ~mergedPair /\ createdPair) =>
                  res.conflicting = <<featurePulls, featurePullsCreated>>
            /\ res.ok => res.conflicting = <<>>

\* C14 witness: a list with pulls, pulls_created and pulls_merged, for which
\* the pair with pulls_merged is reported.
C14_Witness ==
    /\ res.op = "checkFeatureConflict"
    /\ arg = <<featurePullsCreated, featurePulls, featurePullsMerged>>
    /\ res.conflicting = <<featurePulls, featurePullsMerged>>

\* The comma-separated entries of the features of the subscription checked.
FeatureEntries == Elems(SplitBy(res.features, ","))

\* C15: for a subscription whose feature list passes validateFeatures, each
\* feature predicate is true exactly when the feature's name is one of the
\* comma-separated entries of the list, and Workflows exactly when
\* workflow_failure or workflow_success is an entry.
C15_PredicatesExact ==
    (res.op = "predicates" /\ validateFeatures(arg).valid) =>
        /\ res.Pulls <=> featurePulls \in FeatureEntries
        /\ res.PullsCreated <=> featurePullsCreated \in FeatureEntries
        /\ res.PullsMerged <=> featurePullsMerged \in FeatureEntries
        /\ res.Issues <=> featureIssues \in FeatureEntries
        /\ res.IssueCreations <=> featureIssueCreation \in FeatureEntries
        /\ res.Pushes <=> featurePushes \in FeatureEntries
        /\ res.Creates <=> featureCreates \in FeatureEntries
        /\ res.Deletes <=> featureDeletes \in FeatureEntries
        /\ res.IssueComments <=> featureIssueComments \in FeatureEntries
        /\ res.PullReviews <=> featurePullReviews \in FeatureEntries
        /\ res.Stars <=> featureStars \in FeatureEntries
        /\ res.Release <=> featureReleases \in FeatureEntries
        /\ res.Discussions <=> featureDiscussions \in FeatureEntries
        /\ res.DiscussionComments <=> featureDiscussionComments \in FeatureEntries
        /\ res.Workflows <=> (\/ featureWorkflowFailure \in FeatureEntries
                              \/ featureWorkflowSuccess \in FeatureEntries)

\* The predicates do report every feature that is an entry of the list.
PredicatesReportEntries ==
    res.op = "predicates" =>
        /\ featurePulls \in FeatureEntries => res.Pulls
        /\ featureIssues \in FeatureEntries => res.Issues
        /\ featurePushes \in FeatureEntries => res.Pushes

\* ---------------------------------------------------------------------------
\* parseCommand: the command line of /github split into words (SpecParse)
\* ---------------------------------------------------------------------------

\* The longest command line the model parses.
MaxInput == 7

Quote == "\""

\* unicode.IsSpace, for the characters the model writes
IsSpace(char) == char \in {" ", "\t", "\n", "\r", "\f"}

\* The loop of parseCommand that appends the whitespace character itself
\* inside double quotes.
RECURSIVE parseCommandLoopKeepWhitespace(_, _, _, _, _)
parseCommandLoopKeepWhitespace(input, i, split, current, inQuotes) ==
    IF i > Len(input)
    THEN IF Len(current) > 0 THEN Append(split, current) ELSE split
    ELSE LET char == input[i] IN
         IF IsSpace(char)
         THEN IF inQuotes
              THEN parseCommandLoopKeepWhitespace(input, i + 1, split,
                                                  Append(current, char), inQuotes)
              ELSE IF Len(current) = 0 /\ ~inQuotes
              THEN parseCommandLoopKeepWhitespace(input, i + 1, split, current, inQuotes)
              ELSE parseCommandLoopKeepWhitespace(input, i + 1, Append(split, current),
                                                  <<>>, inQuotes)
         ELSE parseCommandLoopKeepWhitespace(input, i + 1, split, Append(current, char),
                                             IF char = Quote THEN ~inQuotes ELSE inQuotes)

\* The loop of parseCommand over the runes of input, from rune i on, and the
\* append of the last word after it: the words found.
RECURSIVE parseCommandLoop(_, _, _, _, _)
parseCommandLoop(input, i, split, current, inQuotes) ==
    IF i > Len(input)
    THEN IF Len(current) > 0 THEN Append(split, current) ELSE split
    ELSE LET char == input[i] IN
         IF IsSpace(char)
         THEN IF inQuotes
              THEN parseCommandLoop(input, i + 1, split, Append(current, " "), inQuotes)
              ELSE IF Len(current) = 0 /\ ~inQuotes
              THEN parseCommandLoop(input, i + 1, split, current, inQuotes)
              ELSE parseCommandLoop(input, i + 1, Append(split, current), <<>>, inQuotes)
         ELSE parseCommandLoop(input, i + 1, split, Append(current, char),
                               IF char = Quote THEN ~inQuotes ELSE inQuotes)

\* parseCommand(input): command, action and parameters. split[0] of an empty
\* split is an index out of range: the call panics.
parseCommand(input) ==
    LET split == parseCommandLoop(input, 1, <<>>, <<>>, FALSE) IN
    IF Len(split) = 0
    THEN [op |-> "panic"]
    ELSE [op |-> "parseCommand",
          command |-> split[1],
          action |-> IF Len(split) > 1 THEN split[2] ELSE <<>>,
          parameters |-> IF Len(split) > 2
                         THEN SliceOf(SubSeq(split, 3, Len(split)))
                         ELSE NilSlice]

\* The characters of the command lines: a letter, a space, a line break and
\* the double quote.
CommandChars == {"a", " ", "\n", Quote}

RECURSIVE CommandLines(_)
CommandLines(n) ==
    IF n = 0 THEN {<<>>}
    ELSE LET shorter == CommandLines(n - 1) IN
         shorter \cup {Append(s, c) : s \in {t \in shorter : Len(t) = n - 1},
                                      c \in CommandChars}

CommandInputs == CommandLines(MaxInput)

InitParse ==
    /\ StoreIdle
    /\ ConcIdle
    /\ HookIdle
    /\ JsonIdle
    /\ MuteIdle
    /\ OAuthIdle
    /\ ApiIdle
    /\ arg \in CommandInputs
    /\ res = [op |-> "none"]

\* ExecuteCommand: cmd, action, parameters := parseCommand(args.Command)
parseCommandCall ==
    /\ res.op = "none"
    /\ res' = parseCommand(arg)
    /\ UNCHANGED <<notPureVars, arg>>

NextParse == parseCommandCall

SpecParse == InitParse /\ [][NextParse]_vars

\* The tokens of a command line as the contract describes them. A separator
\* is a whitespace character with an even number of double quotes before it;
\* a token is a longest run of characters that are not separators, each of
\* its whitespace characters written as one space.
QuotesBefore(input, i) == Cardinality({j \in 1..(i - 1) : input[j] = Quote})
IsSeparator(input, i) == IsSpace(input[i]) /\ QuotesBefore(input, i) % 2 = 0
TokenStarts(input) ==
    {i \in 1..Len(input) :
        ~IsSeparator(input, i) /\ (i = 1 \/ IsSeparator(input, i - 1))}
TokenEnd(input, i) ==
    CHOOSE e \in i..Len(input) :
        /\ \A j \in i..e : ~IsSeparator(input, j)
        /\ (e = Len(input) \/ IsSeparator(input, e + 1))
TokenText(input, i) ==
    [k \in 1..(TokenEnd(input, i) - i + 1) |->
        IF IsSpace(input[i + k - 1]) THEN " " ELSE input[i + k - 1]]
Tokens(input) ==
    LET starts == TokenStarts(input)
        nth(n) == CHOOSE s \in starts : Cardinality({t \in starts : t < s}) = n - 1
    IN  [n \in 1..Cardinality(starts) |-> TokenText(input, nth(n))]

\* C16: parseCommand returns the tokens of its input: the words between
\* whitespace that lies outside double quotes (leading, trailing and repeated
\* whitespace, line breaks included, ignored), whitespace inside double
\* quotes kept in the word as one space per whitespace character. The first
\* token is the command, the second the action (empty if absent), the rest
\* the parameters (nil if none), and no token is empty.
C16_ParseCommand ==
    res.op = "parseCommand" =>
        LET tokens == Tokens(arg) IN
        /\ Len(tokens) >= 1
        /\ \A n \in 1..Len(tokens) : Len(tokens[n]) > 0
        /\ res.command = tokens[1]
        /\ res.action = (IF Len(tokens) > 1 THEN tokens[2] ELSE <<>>)
        /\ res.parameters = (IF Len(tokens) > 2
                             THEN SliceOf(SubSeq(tokens, 3, Len(tokens)))
                             ELSE NilSlice)
        /\ Len(res.command) > 0
        /\ Len(tokens) > 1 => Len(res.action) > 0
        /\ \A n \in 1..Len(res.parameters.elems) : Len(res.parameters.elems[n]) > 0

\* C16 witness: a command, a quoted action that holds a line break, and one
\* parameter.
C16_Witness ==
    /\ res.op = "parseCommand"
    /\ arg = <<"a", " ", Quote, "\n", Quote, " ", "a">>
    /\ res.command = <<"a">>
    /\ res.action = <<Quote, " ", Quote>>
    /\ res.parameters = SliceOf(<< <<"a">> >>)

\* A command line without any word makes parseCommand panic, and only such
\* a line does.
ParseCommandPanicsOnBlank == res.op = "panic" <=> (res.op # "none" /\ Tokens(arg) = <<>>)

\* ---------------------------------------------------------------------------
\* The muted users of one user: /github mute add, delete, delete-all (SpecMute)
\* ---------------------------------------------------------------------------

\* The longest muted list the model stores.
MaxMuted == 3

\* getMutedUsernames, after a successful read of the bytes stored under
\* <userID>-muted-users: nil for no bytes, else the bytes split at commas.
getMutedUsernames(mutedUsernameBytes) ==
    IF Len(mutedUsernameBytes) = 0 THEN <<>> ELSE SplitBy(mutedUsernameBytes, ",")

\* contains(s, e)
contains(s, e) == \E i \in 1..Len(s) : s[i] = e

\* arrayDifference(a, b): the elements of a that are not in b, in a's order.
RECURSIVE arrayDifference(_, _)
arrayDifference(a, b) ==
    IF a = <<>> THEN <<>>
    ELSE IF contains(b, Head(a)) THEN arrayDifference(Tail(a), b)
    ELSE <<Head(a)>> \o arrayDifference(Tail(a), b)

\* The text handleMuteAdd would store if it put the new username first.
mutedUsersPrepend(mutedUsernames, username) ==
    IF Len(mutedUsernames) > 0
    THEN username \o <<",">> \o Join(mutedUsernames, <<",">>)
    ELSE username

\* handleMuteAdd: the text it stores for the list read and the username given.
mutedUsers(mutedUsernames, username) ==
    IF Len(mutedUsernames) > 0
    THEN Join(mutedUsernames, <<",">>) \o <<",">> \o username
    ELSE username

\* handleMuteAdd(username): the message returned and the bytes stored after it.
handleMuteAddOutcome(stored, username, readOK, writeOK) ==
    IF ~readOK
    THEN [text |-> "An error occurred getting muted users. Please try again later",
          stored |-> stored, written |-> FALSE]
    ELSE IF contains(getMutedUsernames(stored), username)
    THEN [text |-> "is already muted", stored |-> stored, written |-> FALSE]
    ELSE IF Contains(username, <<",">>)
    THEN [text |-> "Invalid username provided", stored |-> stored, written |-> FALSE]
    ELSE IF ~writeOK
    THEN [text |-> "Error occurred saving list of muted users",
          stored |-> stored, written |-> FALSE]
    ELSE [text |-> "is now muted. You'll no longer receive notifications for comments in your PRs and issues.",
          stored |-> mutedUsers(getMutedUsernames(stored), username), written |-> TRUE]

\* The usernames given to the mute commands: never empty, as parseCommand
\* yields no empty word; one of them holds a comma.
User_a == <<"a">>
User_b == <<"b">>
User_ab == <<"a", "b">>
User_comma == <<"a", ",", "b">>
MuteUsernames == {User_a, User_b, User_ab, User_comma}

\* /github mute add <username>
handleMuteAdd(username, readOK, writeOK) ==
    /\ mlast.op = "none"
    /\ Len(getMutedUsernames(mkv)) < MaxMuted
    /\ LET out == handleMuteAddOutcome(mkv, username, readOK, writeOK) IN
       /\ mkv' = out.stored
       /\ mlast' = [op |-> "handleMuteAdd", username |-> username, readOK |-> readOK,
                    writeOK |-> writeOK, before |-> mkv, text |-> out.text,
                    written |-> out.written]
    /\ UNCHANGED notMuteVars

\* /github mute delete <username>
handleUnmute(username, readOK, writeOK) ==
    /\ mlast.op = "none"
    /\ IF ~readOK
       THEN /\ mkv' = mkv
            /\ mlast' = [op |-> "handleUnmute",
                         text |-> "An error occurred getting muted users. Please try again later"]
       ELSE IF ~writeOK
       THEN /\ mkv' = mkv
            /\ mlast' = [op |-> "handleUnmute", text |-> "Error occurred unmuting users"]
       ELSE /\ mkv' = Join(arrayDifference(getMutedUsernames(mkv), <<username>>), <<",">>)
            /\ mlast' = [op |-> "handleUnmute", text |-> "is no longer muted"]
    /\ UNCHANGED notMuteVars

\* /github mute delete-all
handleUnmuteAll(writeOK) ==
    /\ mlast.op = "none"
    /\ IF ~writeOK
       THEN /\ mkv' = mkv
            /\ mlast' = [op |-> "handleUnmuteAll", text |-> "Error occurred unmuting users"]
       ELSE /\ mkv' = <<>>
            /\ mlast' = [op |-> "handleUnmuteAll", text |-> "Unmuted all users"]
    /\ UNCHANGED notMuteVars

\* The command has answered; the next one may be given.
MuteReturn ==
    /\ mlast.op # "none"
    /\ mlast' = [op |-> "none"]
    /\ UNCHANGED <<notMuteVars, mkv>>

NextMute ==
    \/ MuteReturn
    \/ \E username \in MuteUsernames, readOK \in BOOLEAN, writeOK \in BOOLEAN :
           handleMuteAdd(username, readOK, writeOK)
    \/ \E username \in MuteUsernames, readOK \in BOOLEAN, writeOK \in BOOLEAN :
           handleUnmute(username, readOK, writeOK)
    \/ \E writeOK \in BOOLEAN : handleUnmuteAll(writeOK)

SpecMute == Init /\ [][NextMute]_vars

\* The muted list a stored text stands for.
MutedListOf(stored) == IF stored = <<>> THEN <<>> ELSE SplitBy(stored, ",")

\* C17: handleMuteAdd appends the username to the end of the stored
\* comma-separated muted list and reports success; when the read fails, or
\* the username is already in the list, or it contains a comma, it writes
\* nothing, the stored list stays as it was, and it returns the message of
\* that case; when the write fails it reports the save error.
C17_HandleMuteAdd ==
    mlast.op = "handleMuteAdd" =>
        LET before == MutedListOf(mlast.before)
            already == \E i \in 1..Len(before) : before[i] = mlast.username
            hasComma == \E i \in 1..Len(mlast.username) : mlast.username[i] = ","
        IN  IF ~mlast.readOK
            THEN /\ mlast.text = "An error occurred getting muted users. Please try again later"
                 /\ ~mlast.written /\ mkv = mlast.before
            ELSE IF already
            THEN /\ mlast.text = "is already muted"
                 /\ ~mlast.written /\ mkv = mlast.before
            ELSE IF hasComma
            THEN /\ mlast.text = "Invalid username provided"
                 /\ ~mlast.written /\ mkv = mlast.before
            ELSE IF ~mlast.writeOK
            THEN mlast.text = "Error occurred saving list of muted users"
            ELSE /\ mlast.text = "is now muted. You'll no longer receive notifications for comments in your PRs and issues."
                 /\ mlast.written
                 /\ MutedListOf(mkv) = Append(before, mlast.username)

\* C17 witness: b is added to a stored list that holds a.
C17_Witness ==
    /\ mlast.op = "handleMuteAdd"
    /\ mlast.before = <<"a">>
    /\ mlast.username = User_b
    /\ mlast.written
    /\ mkv = <<"a", ",", "b">>

\* ---------------------------------------------------------------------------
\* The wait for the completion of an OAuth connection (SpecOAuth)
\* ---------------------------------------------------------------------------

\* A nil error, and the error of a failed connection.
NilError == "nil"
ConnectError == "connection failed"
OAuthErrors == {NilError, ConnectError}
TimedOutMsg == "Timed out waiting for OAuth connection. Please check if the SiteURL is correct."

\* The channels subscribed for a user.
Subscribed(subs, userID) == {subs[userID][i] : i \in 1..Len(subs[userID])}

\* OAuthBroker.SubscribeOAuthComplete(userID): one more channel for the user.
SubscribeOAuthComplete(subs, userID, ch) == [subs EXCEPT ![userID] = Append(@, ch)]

\* OAuthBroker.UnsubscribeOAuthComplete(userID, ch): the channel is removed.
UnsubscribeOAuthComplete(subs, userID, ch) ==
    [subs EXCEPT ![userID] = SelectSeq(@, LAMBDA c : c # ch)]

\* OAuthBroker.publishOAuthComplete(userID, err): err is sent to every channel
\* subscribed for the user, without blocking; a channel holds one value.
publishOAuthComplete(chans, subs, userID, err) ==
    [ch \in WaitIDs |->
        IF ch \in Subscribed(subs, userID) /\ Len(chans[ch]) < 1
        THEN Append(chans[ch], err)
        ELSE chans[ch]]

\* What a publication is for the waits of the user that are still to be
\* decided: the first completion published for them.
Published(hist, userID, err) ==
    [w \in WaitIDs |->
        IF /\ owait[w].userID = userID
           /\ owait[w].pc \in {"go", "select"}
           /\ hist[w].firstPub = "none"
        THEN [hist[w] EXCEPT !.firstPub = err]
        ELSE hist[w]]

\* connectUserToGitHub(c.UserID): with the OAuth configuration made and the
\* state stored, it subscribes a channel for the user and starts the waiting
\* goroutine; on either failure it returns before that.
connectUserToGitHub(userID, confOK, setOK) ==
    /\ \E w \in WaitIDs : owait[w].pc = "idle"
    /\ LET ch == CHOOSE w \in WaitIDs :
                     owait[w].pc = "idle" /\ \A v \in WaitIDs : owait[v].pc = "idle" => w <= v
       IN  IF ~confOK \/ ~setOK
           THEN UNCHANGED <<owait, osubs>>
           ELSE /\ osubs' = SubscribeOAuthComplete(osubs, userID, ch)
                /\ owait' = [owait EXCEPT ![ch] = [pc |-> "go", userID |-> userID,
                                                   errorMsg |-> ""]]
    /\ UNCHANGED <<notOAuthVars, ochan, ohist, olast>>

\* The goroutine starts: context.WithTimeout arms the 45 seconds and the
\* goroutine enters the select.
WaiterStart(w) ==
    /\ owait[w].pc = "go"
    /\ owait' = [owait EXCEPT ![w].pc = "select"]
    /\ UNCHANGED <<notOAuthVars, osubs, ochan, ohist, olast>>

\* The errorMsg of a received error that is never reported.
selectErrorMsgDropped(err) == ""

\* case err := <-ch: the errorMsg of what was received.
selectErrorMsg(err) == IF err # NilError THEN err ELSE ""

\* case err := <-ch
WaiterReceive(w) ==
    /\ owait[w].pc = "select"
    /\ ochan[w] # <<>>
    /\ owait' = [owait EXCEPT ![w].pc = "selected",
                              ![w].errorMsg = selectErrorMsg(Head(ochan[w]))]
    /\ ochan' = [ochan EXCEPT ![w] = Tail(@)]
    /\ UNCHANGED <<notOAuthVars, osubs, ohist, olast>>

\* case <-ctx.Done(): the 45 seconds have passed with nothing to receive. A
\* value sent to the channel of a goroutine in the select is received at
\* once, so the time passes only over an empty channel.
WaiterTimeout(w) ==
    /\ owait[w].pc = "select"
    /\ ochan[w] = <<>>
    /\ owait' = [owait EXCEPT ![w].pc = "selected", ![w].errorMsg = TimedOutMsg]
    /\ ohist' = [ohist EXCEPT ![w].timedOut = TRUE]
    /\ UNCHANGED <<notOAuthVars, osubs, ochan, olast>>

\* if errorMsg != "": DMWithAttachments to the user.
WaiterNotify(w) ==
    /\ owait[w].pc = "selected"
    /\ owait' = [owait EXCEPT ![w].pc = "unsubscribe"]
    /\ ohist' = [ohist EXCEPT ![w].dms = IF owait[w].errorMsg # "" THEN @ + 1 ELSE @]
    /\ UNCHANGED <<notOAuthVars, osubs, ochan, olast>>

\* The goroutine ends and leaves its channel subscribed.
WaiterEndsSubscribed(w) ==
    /\ owait[w].pc = "unsubscribe"
    /\ owait' = [owait EXCEPT ![w].pc = "done"]
    /\ UNCHANGED <<notOAuthVars, osubs, ochan, ohist, olast>>

\* p.oauthBroker.UnsubscribeOAuthComplete(c.UserID, ch), and the goroutine ends.
WaiterUnsubscribe(w) ==
    /\ owait[w].pc = "unsubscribe"
    /\ osubs' = UnsubscribeOAuthComplete(osubs, owait[w].userID, w)
    /\ ohist' = [ohist EXCEPT ![w].unsubs = @ + 1]
    /\ owait' = [owait EXCEPT ![w].pc = "done"]
    /\ UNCHANGED <<notOAuthVars, ochan, olast>>

\* The places completeConnectUserToGitHub returns at.
CompleteReturns ==
    {"missing authorization code", "missing stored state", "error deleting stored state",
     "invalid state token", "unauthorized user", "error generating OAuthConfig",
     "failed to exchange oauth code into token", "failed to get authenticated GitHub user",
     "unable to connect user to GitHub", "failed to write HTML response", "connected"}

\* The completions a handler publishes if it does so only once connected.
completePublishesWhenConnected(userID, return) ==
    IF return = "connected" THEN <<[userID |-> userID, err |-> NilError]>> ELSE <<>>

\* completeConnectUserToGitHub: the deferred publishOAuthComplete(c.UserID, rErr)
\* runs at every return; rErr is declared and never assigned.
completePublishes(userID, return) == <<[userID |-> userID, err |-> NilError]>>

\* completeConnectUserToGitHub(c.UserID), returning at one of its returns.
completeConnectUserToGitHub(userID, return) ==
    LET pubs == completePublishes(userID, return) IN
    /\ olast' = [op |-> "completeConnectUserToGitHub", userID |-> userID,
                 connected |-> (return = "connected"), published |-> pubs]
    /\ IF pubs = <<>>
       THEN UNCHANGED <<ochan, ohist>>
       ELSE /\ ochan' = publishOAuthComplete(ochan, osubs, pubs[1].userID, pubs[1].err)
            /\ ohist' = Published(ohist, pubs[1].userID, pubs[1].err)
    /\ UNCHANGED <<notOAuthVars, owait, osubs>>

\* HandleClusterEvent: the completion another node of the cluster published,
\* with or without an error.
HandleClusterEvent(userID, err) ==
    /\ ochan' = publishOAuthComplete(ochan, osubs, userID, err)
    /\ ohist' = Published(ohist, userID, err)
    /\ UNCHANGED <<notOAuthVars, owait, osubs, olast>>

\* One step of the waiting goroutine w.
WaiterStep(w) ==
    \/ WaiterStart(w)
    \/ WaiterReceive(w)
    \/ WaiterTimeout(w)
    \/ WaiterNotify(w)
    \/ WaiterUnsubscribe(w)

NextOAuth ==
    \/ \E userID \in OAuthUsers, confOK \in BOOLEAN, setOK \in BOOLEAN :
           connectUserToGitHub(userID, confOK, setOK)
    \/ \E userID \in OAuthUsers, return \in CompleteReturns :
           completeConnectUserToGitHub(userID, return)
    \/ \E userID \in OAuthUsers, err \in OAuthErrors : HandleClusterEvent(userID, err)
    \/ \E w \in WaitIDs : WaiterStart(w)
    \/ \E w \in WaitIDs : WaiterReceive(w)
    \/ \E w \in WaitIDs : WaiterTimeout(w)
    \/ \E w \in WaitIDs : WaiterNotify(w)
    \/ \E w \in WaitIDs : WaiterUnsubscribe(w)

\* A started goroutine is scheduled, and the 45 seconds of its context pass.
SpecOAuth ==
    /\ Init
    /\ [][NextOAuth]_vars
    /\ \A w \in WaitIDs : WF_vars(WaiterStep(w))

\* C18: every wait that connectUserToGitHub registers ends, with its channel
\* unsubscribed by exactly one call of UnsubscribeOAuthComplete, whether a
\* completion was published without error, with an error, or not in time;
\* and no wait ever unsubscribes twice.
C18_WaitEndsUnsubscribed ==
    /\ [](\A w \in WaitIDs : ohist[w].unsubs <= 1)
    /\ \A w \in WaitIDs :
           (owait[w].pc = "go") ~>
               (/\ owait[w].pc = "done"
                /\ ohist[w].unsubs = 1
                /\ w \notin Subscribed(osubs, owait[w].userID))

\* C18 witness: a wait has ended by the timeout, its channel unsubscribed
\* once and no channel left with the broker.
C18_Witness ==
    \E w \in WaitIDs :
        /\ owait[w].pc = "done"
        /\ ohist[w].timedOut
        /\ ohist[w].unsubs = 1
        /\ \A u \in OAuthUsers : osubs[u] = <<>>

\* C19: a wait that has ended has sent one failure message to its user if
\* the 45 seconds passed with no completion published for the user, or the
\* first completion published for the user since the wait was registered
\* carried an error, and none otherwise: none when that completion was a
\* success. A wait sends no message before it is decided. And
\* completeConnectUserToGitHub publishes a completion for the requesting
\* user at every return.
C19_FailureMessage ==
    /\ \A w \in WaitIDs :
           /\ owait[w].pc \in {"unsubscribe", "done"} =>
                  /\ ohist[w].dms \in {0, 1}
                  /\ ohist[w].dms = 1 <=>
                         \/ ohist[w].timedOut /\ ohist[w].firstPub = "none"
                         \/ ohist[w].firstPub \notin {"none", NilError}
                  /\ ohist[w].timedOut <=> ohist[w].firstPub = "none"
           /\ owait[w].pc \notin {"unsubscribe", "done"} => ohist[w].dms = 0
    /\ olast.op = "completeConnectUserToGitHub" =>
           /\ Len(olast.published) = 1
           /\ olast.published[1].userID = olast.userID

\* C19 witness: a handler that returned before the user was connected has
\* published, and the wait of its user has ended without a failure message.
C19_Witness ==
    /\ olast.op = "completeConnectUserToGitHub"
    /\ ~olast.connected
    /\ \E w \in WaitIDs :
           /\ owait[w].userID = olast.userID
           /\ owait[w].pc = "done"
           /\ ohist[w].firstPub = NilError
           /\ ohist[w].dms = 0

\* ---------------------------------------------------------------------------
\* The organization-membership filter of a delivery (SpecMember)
\* ---------------------------------------------------------------------------

\* isUserOrganizationMember: false without an organization, false when the
\* GitHub call fails, else what Organizations.IsMember answers.
isUserOrganizationMember(organization, clientOK, isMember) ==
    IF organization = <<>> THEN FALSE
    ELSE IF ~clientOK THEN FALSE
    ELSE isMember

\* The membership rules of the filter: a subscription that excludes
\* organization members rejects a member, one that includes only members
\* rejects who is not a member.
matchesMembership(flags, actorIsOrgMember) ==
    /\ ~(flags.ExcludeOrgMembers /\ actorIsOrgMember)
    /\ ~(flags.IncludeOnlyOrgMembers /\ ~actorIsOrgMember)

BothMembersFlags == [ExcludeMembersFlags EXCEPT !.IncludeOnlyOrgMembers = TRUE]
MemberFlagInputs == {PlainFlags, ExcludeMembersFlags, OnlyMembersFlags, BothMembersFlags}
MemberOrgInputs == {<<>>, <<"a">>}
ActorLogins == {"dev1", "dev2"}

\* An event of an actor for one subscription: its flags, the organization
\* configured, whether the GitHub call works and what it answers.
MemberInputs ==
    [flags : MemberFlagInputs, organization : MemberOrgInputs, creatorID : CreatorIDs,
     login : ActorLogins, clientOK : BOOLEAN, isMember : BOOLEAN]

InitMember ==
    /\ StoreIdle
    /\ ConcIdle
    /\ HookIdle
    /\ JsonIdle
    /\ MuteIdle
    /\ OAuthIdle
    /\ ApiIdle
    /\ arg \in MemberInputs
    /\ res = [op |-> "none"]

\* The filter decides whether the subscription receives the event.
MembershipFilterCall ==
    /\ res.op = "none"
    /\ LET member == isUserOrganizationMember(arg.organization, arg.clientOK, arg.isMember)
       IN  res' = [op |-> "matches", actorIsOrgMember |-> member,
                   delivered |-> matchesMembership(arg.flags, member)]
    /\ UNCHANGED <<notPureVars, arg>>

NextMember == MembershipFilterCall

SpecMember == InitMember /\ [][NextMember]_vars

\* Membership cannot be determined: no organization is configured or the
\* GitHub call fails.
MembershipUndetermined == arg.organization = <<>> \/ ~arg.clientOK

\* C21: when the membership check cannot determine membership, a
\* subscription with the exclude-org-members flag or the
\* include-only-org-members flag does not receive the event.
C21_FailedCheckNotDelivered ==
    (/\ res.op = "matches"
     /\ MembershipUndetermined
     /\ (arg.flags.ExcludeOrgMembers \/ arg.flags.IncludeOnlyOrgMembers))
        => ~res.delivered

\* What the code does with a check that failed: the actor counts as not a
\* member, so only the include-only flag keeps the event away.
FailedCheckCountsAsNotMember ==
    (res.op = "matches" /\ MembershipUndetermined) =>
        /\ ~res.actorIsOrgMember
        /\ res.delivered <=> ~arg.flags.IncludeOnlyOrgMembers

\* ---------------------------------------------------------------------------
\* ExecuteCommand: the gates before a command handler (SpecExecute)
\* ---------------------------------------------------------------------------

\* The actions of p.CommandHandlers, as NewPlugin registers them.
CommandHandlers ==
    {"subscriptions", "subscribe", "unsubscribe", "disconnect", "todo", "mute", "me",
     "help", "", "settings", "issue", "default-repo"}

\* getGitHubUserInfo that never returns an error.
getGitHubUserInfoAlwaysFound(info) == FALSE

\* getGitHubUserInfo returns an error: the store cannot be read, no user info
\* is stored (not connected), or the token cannot be decrypted.
getGitHubUserInfoFails(info) == info # "connected"

\* handleSetup: its message, empty once a wizard was started.
handleSetup(admin, parameters, wizardOK) ==
    IF admin = "error" THEN "Error checking user's permissions"
    ELSE IF admin # "admin" THEN "Only System Admins are allowed to set up the plugin."
    ELSE IF Len(parameters) > 0 /\ parameters[1] \notin {"oauth", "webhook", "announcement"}
    THEN "Unknown subcommand"
    ELSE IF ~wizardOK THEN "wizard error"
    ELSE ""

\* The ephemeral posts of one message, none for the empty message.
PostIfNotEmpty(message) == IF message = "" THEN <<>> ELSE <<message>>

\* What ExecuteCommand did: its response and error, the ephemeral posts of
\* postCommandResponse, the registered handler it called, whether it called
\* handleSetup.
Executed(posts, handler, setup) ==
    [op |-> "ExecuteCommand", response |-> "empty", err |-> "nil", posts |-> posts,
     handler |-> handler, setup |-> setup]

\* ExecuteCommand(args), args.Command parsed into cmd, action, parameters.
ExecuteCommand(a) ==
    IF a.cmd # "/github" THEN Executed(<<>>, "none", FALSE)
    ELSE IF a.action = "about" THEN Executed(<<"GitHub version">>, "none", FALSE)
    ELSE IF a.action = "setup"
    THEN Executed(PostIfNotEmpty(handleSetup(a.admin, a.parameters, a.quiet)), "none", TRUE)
    ELSE IF ~a.configValid
    THEN Executed(<<IF a.admin = "error" THEN "Error checking user's permissions"
                    ELSE IF a.admin = "admin"
                    THEN "Before using this plugin, you'll need to configure it by running /github setup"
                    ELSE "Please contact your system administrator to correctly configure the GitHub plugin.">>,
                  "none", FALSE)
    ELSE IF a.action = "connect"
    THEN IF ~a.urlOK
         THEN Executed(<<"Encountered an error connecting to GitHub">>, "none", FALSE)
         ELSE IF Len(a.parameters) > 0 /\ a.privateByDefault
         THEN Executed(<<"Unknown command. Do you meant /github connect?">>, "none", FALSE)
         ELSE IF Len(a.parameters) > 0
                 /\ (Len(a.parameters) # 1 \/ a.parameters[1] # "private")
         THEN Executed(<<"Unknown command. Do you meant /github connect private?">>,
                       "none", FALSE)
         ELSE IF (a.privateByDefault \/ Len(a.parameters) > 0) /\ ~a.enablePrivateRepo
         THEN Executed(<<"Private repositories are disabled. Please ask a System Admin to enabled them.">>,
                       "none", FALSE)
         ELSE Executed(<<"[Click here to link your GitHub account.]">>, "none", FALSE)
    ELSE IF getGitHubUserInfoFails(a.info)
    THEN Executed(<<IF a.info = "not connected"
                    THEN "You must connect your account to GitHub first."
                    ELSE "Unknown error.">>, "none", FALSE)
    ELSE IF a.action \in CommandHandlers
    THEN Executed(PostIfNotEmpty(IF a.quiet THEN "" ELSE "message of the handler"),
                  a.action, FALSE)
    ELSE Executed(<<"Unknown action">>, "none", FALSE)

\* The commands given and what surrounds them: the configuration, the
\* invoking user's role and GitHub account, whether the handler (or the
\* wizard handleSetup starts) ends without a message.
ExecuteActions == CommandHandlers \cup {"about", "setup", "connect", "bogus"}
ExecuteParameters == {<<>>, <<"private">>, <<"oauth">>, <<"private", "x">>}
ExecuteInputs ==
    [cmd : {"/github", "/gitlab"}, action : ExecuteActions, parameters : ExecuteParameters,
     configValid : BOOLEAN, admin : {"error", "admin", "user"},
     info : {"connected", "not connected", "store error"}, quiet : BOOLEAN,
     urlOK : {TRUE}, privateByDefault : {FALSE}, enablePrivateRepo : {TRUE}]
    \cup
    [cmd : {"/github"}, action : {"connect"}, parameters : ExecuteParameters,
     configValid : {TRUE}, admin : {"user"},
     info : {"connected", "not connected"}, quiet : {TRUE},
     urlOK : BOOLEAN, privateByDefault : BOOLEAN, enablePrivateRepo : BOOLEAN]

InitExecute ==
    /\ StoreIdle
    /\ ConcIdle
    /\ HookIdle
    /\ JsonIdle
    /\ MuteIdle
    /\ OAuthIdle
    /\ ApiIdle
    /\ arg \in ExecuteInputs
    /\ res = [op |-> "none"]

ExecuteCommandCall ==
    /\ res.op = "none"
    /\ res' = ExecuteCommand(arg)
    /\ UNCHANGED <<notPureVars, arg>>

NextExecute == ExecuteCommandCall

SpecExecute == InitExecute /\ [][NextExecute]_vars

\* The two conditions of the claim: the configuration is valid and the
\* invoking user has a connected GitHub account.
ExecuteGatesOpen == arg.configValid /\ arg.info = "connected"

\* C22 as stated: for a /github command the response is empty and the error
\* nil; a registered handler runs only with both conditions met; with a
\* condition failing, exactly one ephemeral message is posted and no handler
\* runs.
C22_GatesAsStated ==
    (res.op = "ExecuteCommand" /\ arg.cmd = "/github") =>
        /\ res.response = "empty" /\ res.err = "nil"
        /\ res.handler # "none" => ExecuteGatesOpen
        /\ ~ExecuteGatesOpen =>
               (Len(res.posts) = 1 /\ res.handler = "none")

\* C22, amended: for a /github command the response is empty and the error
\* nil; a registered handler runs only for its own action and only with both
\* conditions met; with a condition failing no registered handler runs and
\* exactly one ephemeral message is posted, except for the setup action,
\* which runs handleSetup whatever the conditions and posts its message only
\* if it is not empty.
C22_Gates ==
    (res.op = "ExecuteCommand" /\ arg.cmd = "/github") =>
        /\ res.response = "empty" /\ res.err = "nil"
        /\ res.handler # "none" =>
               (ExecuteGatesOpen /\ res.handler = arg.action /\ arg.action \in CommandHandlers)
        /\ res.setup <=> arg.action = "setup"
        /\ ~ExecuteGatesOpen =>
               /\ res.handler = "none"
               /\ arg.action # "setup" => Len(res.posts) = 1
               /\ arg.action = "setup" =>
                      res.posts = PostIfNotEmpty(handleSetup(arg.admin, arg.parameters, arg.quiet))

\* C22 witness: /github subscribe by a user without a connected account, the
\* configuration valid: one message, no handler.
C22_Witness ==
    /\ res.op = "ExecuteCommand"
    /\ arg.cmd = "/github" /\ arg.action = "subscribe"
    /\ arg.configValid /\ arg.info = "not connected"
    /\ res.posts = <<"You must connect your account to GitHub first.">>
    /\ res.handler = "none"

\* ---------------------------------------------------------------------------
\* /github subscriptions add with flags (SpecSubscribeCmd)
\* ---------------------------------------------------------------------------

\* strconv.ParseBool succeeds, for the values the model writes.
ParseBoolOK(value) == value \in {<<"t", "r", "u", "e">>, <<"f", "a", "l", "s", "e">>, <<"1">>, <<"0">>}
ParseBoolValue(value) == value \in {<<"t", "r", "u", "e">>, <<"1">>}

\* SubscriptionFlags.AddFlag(flag, value): the error and the flags after it.
AddFlag(s, flag, value) ==
    IF flag = "exclude-org-member"
    THEN IF ~ParseBoolOK(value) THEN [err |-> <<"invalid syntax">>, flags |-> s]
         ELSE [err |-> NoError, flags |-> [s EXCEPT !.ExcludeOrgMembers = ParseBoolValue(value)]]
    ELSE IF flag = "include-only-org-members"
    THEN IF ~ParseBoolOK(value) THEN [err |-> <<"invalid syntax">>, flags |-> s]
         ELSE [err |-> NoError,
               flags |-> [s EXCEPT !.IncludeOnlyOrgMembers = ParseBoolValue(value)]]
    ELSE IF flag = "render-style"
    THEN [err |-> NoError, flags |-> [s EXCEPT !.RenderStyle = value]]
    ELSE IF flag = "exclude"
    THEN LET repos == SplitBy(value, ",")
         IN  [err |-> NoError,
              flags |-> [s EXCEPT !.ExcludeRepository =
                                      [i \in 1..Len(repos) |-> TrimSpace(repos[i])]]]
    ELSE [err |-> NoError, flags |-> s]

\* handleSubscribesAdd, the loop over flagParams from pair i on: the message
\* it returns at, or the features and flags it ends with.
RECURSIVE flagLoop(_, _, _, _)
flagLoop(flagParams, i, subscriptionEvents, flags) ==
    IF i > Len(flagParams)
    THEN [text |-> "", subscriptionEvents |-> subscriptionEvents, flags |-> flags]
    ELSE LET flag == flagParams[i]
             value == flagParams[i + 1].text
         IN  IF ~flag.isFlag
             THEN [text |-> "Please use the correct format for flags: --<name> <value>",
                   subscriptionEvents |-> subscriptionEvents, flags |-> flags]
             ELSE IF flag.text = "features"
             THEN flagLoop(flagParams, i + 2, value, flags)
             ELSE IF AddFlag(flags, flag.text, value).err # NoError
             THEN [text |-> "Unsupported value for flag",
                   subscriptionEvents |-> subscriptionEvents, flags |-> flags]
             ELSE flagLoop(flagParams, i + 2, subscriptionEvents,
                           AddFlag(flags, flag.text, value).flags)

\* handleSubscribesAdd, parameters[1:]: the message of a wrong flag or
\* feature list, or the features and flags of the command.
parseFlagParams(flagParams, defaultEvents) ==
    IF Len(flagParams) = 0
    THEN [text |-> "", subscriptionEvents |-> defaultEvents, flags |-> FlagsOf(<<>>)]
    ELSE IF Len(flagParams) % 2 # 0
    THEN [text |-> "Please use the correct format for flags: --<name> <value>",
          subscriptionEvents |-> defaultEvents, flags |-> FlagsOf(<<>>)]
    ELSE LET l == flagLoop(flagParams, 1, defaultEvents, FlagsOf(<<>>))
             fs == SplitBy(l.subscriptionEvents, ",")
         IN  IF l.text # "" THEN l
             ELSE IF ~checkFeatureConflict(fs).ok
             THEN [l EXCEPT !.text = "Feature list cannot contain both"]
             ELSE IF ~validateFeatures(fs).valid
             THEN [l EXCEPT !.text = "Invalid feature(s) provided"]
             ELSE l

\* A subscription of one repository that keeps its exclude list.
excludeRejectedNever(flags) == FALSE

\* handleSubscribesAdd, for a repository: len(flags.ExcludeRepository) > 0
excludeRejected(flags) == Len(flags.ExcludeRepository) > 0

\* handleSubscribesAdd(parameters): its message and the store after it. The
\* first parameter is given as the owner and repository parseOwnerAndRepo
\* makes of it.
handleSubscribesAdd(stored, userID, channelID, owner, repo, flagParams, env) ==
    LET parsed == parseFlagParams(flagParams,
                      Join(<<featurePulls, featureIssues, featureCreates, featureDeletes>>, <<",">>))
        unchanged(text) == [text |-> text, stored |-> stored]
        org == SubscribeOrgOutcome(stored, userID, owner, channelID, parsed.subscriptionEvents,
                                   parsed.flags, env.config, env.gh, env.readOK, env.writeOK)
        one == SubscribeOutcome(stored, userID, owner, repo, channelID, parsed.subscriptionEvents,
                                parsed.flags, env.config, env.gh, env.readOK, env.writeOK)
    IN  IF parsed.text # "" THEN unchanged(parsed.text)
        ELSE IF ~env.userOK THEN unchanged("failed to get the user")
        ELSE IF ~env.previousOK THEN unchanged("failed to get the subscribed events")
        ELSE IF repo = <<>>
        THEN IF org.err # NoError
             THEN [text |-> "failed to get the subscribed org", stored |-> org.stored]
             ELSE [text |-> "Successfully subscribed to organization", stored |-> org.stored]
        ELSE IF excludeRejected(parsed.flags)
        THEN unchanged("Exclude repository feature is only available to subscriptions of an organization.")
        ELSE IF one.err # NoError
        THEN [text |-> "failed to create a subscription", stored |-> one.stored]
        ELSE [text |-> "Successfully subscribed", stored |-> one.stored]

\* The words after the repository: flags and their values.
Flag(name) == [isFlag |-> TRUE, text |-> name]
Value(text) == [isFlag |-> FALSE, text |-> text]
Exclude_x == Value(<<"a", "/", "x">>)
Exclude_xy == Value(<<"a", "/", "x", ",", " ", "a", "/", "y">>)
Features_bogus == Value(<<"b", "o", "g", "u", "s">>)
Features_issues == Value(featureIssues)
Features_conflict == Value(featureIssues \o <<",">> \o featureIssueCreation)
FlagParamInputs ==
    {<<>>,
     <<Flag("exclude"), Exclude_x>>,
     <<Flag("exclude"), Exclude_xy, Flag("features"), Features_issues>>,
     <<Flag("features"), Features_bogus, Flag("exclude"), Exclude_x>>,
     <<Flag("exclude"), Exclude_x, Flag("features"), Features_conflict>>,
     <<Flag("exclude"), Exclude_x, Flag("render-style")>>,
     <<Flag("exclude"), Exclude_x, Flag("exclude-org-member"), Value(<<"x">>)>>,
     <<Exclude_x, Flag("exclude")>>}

\* Who subscribes and what surrounds the command: the setting, what GitHub
\* finds, whether the user and the store can be read and the store written.
EnvOf(userOK, previousOK, readOK, writeOK) ==
    [config |-> Unlocked, gh |-> AllFound, userOK |-> userOK, previousOK |-> previousOK,
     readOK |-> readOK, writeOK |-> writeOK]
SubscribeCmdEnvs ==
    {EnvOf(TRUE, TRUE, TRUE, TRUE), EnvOf(FALSE, TRUE, TRUE, TRUE),
     EnvOf(TRUE, FALSE, TRUE, TRUE), EnvOf(TRUE, TRUE, FALSE, TRUE),
     EnvOf(TRUE, TRUE, TRUE, FALSE)}

\* /github subscriptions add <owner>[/<repo>] [flags]
handleSubscribesAddCall(userID, channelID, owner, repo, flagParams, env) ==
    LET r == handleSubscribesAdd(kv, userID, channelID, owner, repo, flagParams, env)
    IN  /\ last.op = "none"
        /\ Total(r.stored.subs) <= MaxSubs
        /\ kv' = r.stored
        /\ last' = [op |-> "handleSubscribesAdd", owner |-> owner, repo |-> repo,
                    channelID |-> channelID, flagParams |-> flagParams, env |-> env,
                    pre |-> kv, text |-> r.text]
        /\ UNCHANGED <<concVars, hookVars, auxVars>>

NextSubscribeCmd ==
    \/ Return
    \/ \E userID \in {"u1"}, channelID \in ChannelIDs, owner \in {<<>>, Owner_a},
          repo \in RepoInputs, flagParams \in FlagParamInputs, env \in SubscribeCmdEnvs :
              /\ (owner = <<>> => repo = <<>>)
              /\ handleSubscribesAddCall(userID, channelID, owner, repo, flagParams, env)
    \/ \E channelID \in ChannelIDs, repo \in RepoInputs, io \in StoreInputs :
              handleUnsubscribeCall(channelID, Owner_a, repo, io)

SpecSubscribeCmd == Init /\ [][NextSubscribeCmd]_vars

\* The command carries an exclude list: --exclude and a value after it.
CarriesExclude(flagParams) ==
    \E i \in 1..(Len(flagParams) - 1) :
        i % 2 = 1 /\ flagParams[i] = Flag("exclude") /\ ~flagParams[i + 1].isFlag

\* The command passes what handleSubscribesAdd checks before it looks at the
\* exclude list: flags in pairs with values that parse, features without
\* conflict and all valid, the user and the channel's subscriptions read.
PassesEarlierChecks(flagParams, env) ==
    /\ parseFlagParams(flagParams, featurePulls).text = ""
    /\ env.userOK
    /\ env.previousOK

\* A key of an organization: owner and "/", no repository name.
OrgWideKey(k) == Len(k) > 0 /\ k[Len(k)] = "/"

ExcludeOnlyOrgText == "Exclude repository feature is only available to subscriptions of an organization."

\* C23 as stated: a subscribe command for one repository with an exclude
\* list is rejected with the message that exclusion is only available to
\* subscriptions of an organization, and the store is unchanged; every
\* stored subscription with an exclude list is under the key of an
\* organization.
C23_ExcludeAsStated ==
    /\ (/\ last.op = "handleSubscribesAdd"
        /\ last.repo # <<>>
        /\ CarriesExclude(last.flagParams)) =>
           (last.text = ExcludeOnlyOrgText /\ kv = last.pre)
    /\ \A k \in DOMAIN StoredLists : \A s \in Elems(StoredLists[k]) :
           Len(s.Flags.ExcludeRepository) > 0 => OrgWideKey(k)

\* C23, amended: a subscribe command for one repository with an exclude list
\* is rejected and the store is unchanged; the message is the one about
\* exclusion when the command passes the earlier checks, and the message of
\* the first failing check otherwise; every stored subscription with an
\* exclude list is under the key of an organization.
C23_ExcludeOnlyForOrg ==
    /\ (/\ last.op = "handleSubscribesAdd"
        /\ last.repo # <<>>
        /\ CarriesExclude(last.flagParams)) =>
           /\ kv = last.pre
           /\ last.text \notin {"Successfully subscribed", "Successfully subscribed to organization"}
           /\ PassesEarlierChecks(last.flagParams, last.env) <=> last.text = ExcludeOnlyOrgText
    /\ \A k \in DOMAIN StoredLists : \A s \in Elems(StoredLists[k]) :
           Len(s.Flags.ExcludeRepository) > 0 => OrgWideKey(k)

\* C23 witness: with an organization subscription that excludes a/x stored,
\* the same command for the repository a/w is rejected.
C23_Witness ==
    /\ last.op = "handleSubscribesAdd"
    /\ last.repo = Repo_w
    /\ last.flagParams = <<Flag("exclude"), Exclude_x>>
    /\ last.text = ExcludeOnlyOrgText
    /\ kv = last.pre
    /\ \E s \in Elems(MapGet(StoredLists, <<"a", "/">>)) :
           s.Flags.ExcludeRepository = << <<"a", "/", "x">> >>

\* ---------------------------------------------------------------------------
\* getConnected: the notice that private repositories are enabled (SpecNotice)
\* ---------------------------------------------------------------------------

\* Most direct messages a user has when a request starts.
MaxDMs == 2

\* A connected user's GitHubUserInfo, as far as getConnected reads it.
UserInfoOf(allowedPrivateRepos, lastToDoPostAt, dailyReminder) ==
    << [Token |-> "token", AllowedPrivateRepos |-> allowedPrivateRepos,
        LastToDoPostAt |-> lastToDoPostAt, DailyReminder |-> dailyReminder] >>

\* u1 connected before private repositories were enabled, u2 either connected
\* with private access or not connected; nothing is stored under a user's
\* private-repository key yet.
InitNotice ==
    /\ StoreIdle
    /\ ConcIdle
    /\ HookIdle
    /\ JsonIdle
    /\ PureIdle
    /\ MuteIdle
    /\ OAuthIdle
    /\ \E enablePrivateRepo \in BOOLEAN, other \in {<<>>, UserInfoOf(TRUE, 0, FALSE)} :
           akv = [info |-> [u \in ApiUsers |->
                               IF u = "u1" THEN UserInfoOf(FALSE, 0, FALSE) ELSE other],
                  private |-> [u \in ApiUsers |-> <<>>],
                  EnablePrivateRepo |-> enablePrivateRepo]
    /\ areq = [q \in RequestIDs |-> [pc |-> "idle"]]
    /\ adm = [u \in ApiUsers |-> <<>>]
    /\ anow = 0
    /\ alast = [op |-> "none", storeFailed |-> FALSE, served |-> 0]

\* getConnected up to the private-repository check: a user who is not
\* connected, or has private access, or a setting that is off, gets the
\* response at once.
getConnectedBegin(q, userID) ==
    LET info == akv.info[userID]
    IN  /\ areq[q].pc = "idle"
        /\ Len(adm[userID]) < MaxDMs
        /\ alast.served < MaxDMs + 1
        /\ areq' = [areq EXCEPT ![q] =
               IF info # <<>> /\ akv.EnablePrivateRepo /\ ~info[1].AllowedPrivateRepos
               THEN [pc |-> "get", userID |-> userID]
               ELSE [pc |-> "idle"]]
        /\ alast' = [alast EXCEPT !.op = "getConnected", !.served = @ + 1]
        /\ UNCHANGED <<notApiVars, akv, adm, anow>>

\* err := p.store.Get(privateRepoStoreKey, &val)
getConnectedGet(q, getOK) ==
    /\ areq[q].pc = "get"
    /\ areq' = [areq EXCEPT ![q] =
           IF getOK /\ akv.private[areq[q].userID] = <<>>
           THEN [pc |-> "post", userID |-> areq[q].userID]
           ELSE [pc |-> "idle"]]
    /\ alast' = [alast EXCEPT !.op = "Get", !.storeFailed = @ \/ ~getOK]
    /\ UNCHANGED <<notApiVars, akv, adm, anow>>

\* p.CreateBotDMPost(info.UserID, message, ""): the post is made, or the
\* direct channel or the post fails and a warning is logged.
getConnectedPost(q, posted) ==
    /\ areq[q].pc = "post"
    /\ adm' = [adm EXCEPT ![areq[q].userID] = IF posted THEN Append(@, "private") ELSE @]
    /\ areq' = [areq EXCEPT ![q].pc = "set"]
    /\ alast' = [alast EXCEPT !.op = "CreateBotDMPost"]
    /\ UNCHANGED <<notApiVars, akv, anow>>

\* p.store.Set(privateRepoStoreKey, []byte("1"))
getConnectedSet(q, setOK) ==
    /\ areq[q].pc = "set"
    /\ akv' = [akv EXCEPT !.private[areq[q].userID] = IF setOK THEN <<"1">> ELSE @]
    /\ areq' = [areq EXCEPT ![q] = [pc |-> "idle"]]
    /\ alast' = [alast EXCEPT !.op = "Set", !.storeFailed = @ \/ ~setOK]
    /\ UNCHANGED <<notApiVars, adm, anow>>

NextNotice ==
    \/ \E q \in RequestIDs, userID \in ApiUsers : getConnectedBegin(q, userID)
    \/ \E q \in RequestIDs, getOK \in BOOLEAN : getConnectedGet(q, getOK)
    \/ \E q \in RequestIDs, posted \in BOOLEAN : getConnectedPost(q, posted)
    \/ \E q \in RequestIDs, setOK \in BOOLEAN : getConnectedSet(q, setOK)

SpecNotice == InitNotice /\ [][NextNotice]_vars

\* The notices posted to a user.
Notices(userID) == Len(SelectSeq(adm[userID], LAMBDA m : m = "private"))

\* C24: with a store that never fails, over every interleaving of
\* getConnected requests a user is posted the notice that private
\* repositories are enabled at most once.
C24_NoticeAtMostOnce ==
    ~alast.storeFailed => \A u \in ApiUsers : Notices(u) <= 1

\* ---------------------------------------------------------------------------
\* getConnected: the daily to-do reminder (SpecReminder)
\* ---------------------------------------------------------------------------

MillisPerSecond == 1000
SecondsPerHour == 3600
SecondsPerDay == 86400

\* Instants of the clock, in milliseconds: 23:00:00.999 and 23:30 of one UTC
\* day, then 00:00, 00:30 and 01:00 of the next and 00:00 of the day after.
ClockInstants == {82800999, 84600000, 86400000, 88200000, 90000000, 172800000}

\* X-Timezone-Offset headers: UTC, one hour east, five hours west, not a number.
OffsetHeaders == {<<0>>, <<-60>>, <<300>>, <<>>}

\* time.Unix(ms/1000, 0): the instant in whole seconds.
UnixSeconds(ms) == ms \div MillisPerSecond

\* time.Unix(ms/1000, 0).In(time.FixedZone("local", -60*offset)), as the
\* number of its calendar day: Day(), Month() and Year() together.
LocalDay(ms, offset) == (UnixSeconds(ms) - 60 * offset) \div SecondsPerDay

\* A reminder an hour after the last one, whatever the day.
reminderDueEveryHour(now, lastPostAt, offset) ==
    UnixSeconds(now) - UnixSeconds(lastPostAt) >= SecondsPerHour

\* nt.Sub(lt).Hours() >= 1 && (nt.Day() != lt.Day() || nt.Month() != lt.Month()
\* || nt.Year() != lt.Year())
reminderDue(now, lastPostAt, offset) ==
    /\ UnixSeconds(now) - UnixSeconds(lastPostAt) >= SecondsPerHour
    /\ LocalDay(now, offset) # LocalDay(lastPostAt, offset)

\* Both users connected at the instant the clock starts at (LastToDoPostAt
\* of a new connection is the time of the connection), u1 with the daily
\* reminder on or off.
InitReminder ==
    /\ StoreIdle
    /\ ConcIdle
    /\ HookIdle
    /\ JsonIdle
    /\ PureIdle
    /\ MuteIdle
    /\ OAuthIdle
    /\ anow \in {82800999, 84600000}
    /\ \E dailyReminder \in BOOLEAN :
           akv = [info |-> [u \in ApiUsers |->
                               UserInfoOf(TRUE, anow, dailyReminder)],
                  private |-> [u \in ApiUsers |-> <<>>],
                  EnablePrivateRepo |-> FALSE]
    /\ areq = [q \in RequestIDs |-> [pc |-> "idle"]]
    /\ adm = [u \in ApiUsers |-> <<>>]
    /\ alast = [op |-> "none"]

\* The clock moves on.
Tick(t) ==
    /\ t > anow
    /\ anow' = t
    /\ alast' = [op |-> "Tick"]
    /\ UNCHANGED <<notApiVars, akv, areq, adm>>

\* getConnected for a connected user, one request at a time: the reminder
\* part. The header is a number or not; the user has no unread items, or
\* PostToDo posts, or it does not (GetToDo fails, the summary is the one of
\* the day before, the post fails); storeGitHubUserInfo stores or fails.
getConnected(userID, reminder, header, todo, storeOK) ==
    LET info == akv.info[userID][1]
        lastPostAt == info.LastToDoPostAt
        asked == info.DailyReminder /\ reminder
        hasUnreads == todo # "no unreads"
        posted == todo = "posted"
        due == asked /\ header # <<>> /\ reminderDue(anow, lastPostAt, header[1]) /\ hasUnreads
    IN  /\ Len(adm[userID]) < MaxDMs
        /\ adm' = [adm EXCEPT ![userID] =
               IF due /\ posted
               THEN Append(@, [type |-> "custom_git_todo", at |-> anow, stored |-> storeOK])
               ELSE @]
        /\ akv' = [akv EXCEPT !.info[userID][1].LastToDoPostAt =
               IF due /\ storeOK THEN anow ELSE @]
        /\ alast' = [op |-> "getConnected", userID |-> userID, reminder |-> reminder,
                     header |-> header, lastPostAt |-> lastPostAt, hasUnreads |-> hasUnreads,
                     posted |-> due /\ posted, storeOK |-> storeOK]
        /\ UNCHANGED <<notApiVars, areq, anow>>

NextReminder ==
    \/ \E t \in ClockInstants : Tick(t)
    \/ \E reminder \in BOOLEAN, header \in OffsetHeaders,
          todo \in {"no unreads", "posted", "not posted"}, storeOK \in BOOLEAN :
              getConnected("u1", reminder, header, todo, storeOK)

SpecReminder == InitReminder /\ [][NextReminder]_vars

\* The request just served posted the to-do message.
ToDoPosted == alast.op = "getConnected" /\ alast.posted

\* The to-do messages posted to the user before the one of this request.
EarlierToDos(userID) == SubSeq(adm[userID], 1, Len(adm[userID]) - 1)

handleMuteList(mutedUsernames) ==
    IF Len(mutedUsernames) = 0 THEN "You have no muted users" ELSE "Your muted users:"

\* The usernames muted after a command, told from the commands alone: add
\* puts a username GitHub allows (no comma) that is not muted at the end,
\* delete takes the username out, delete-all takes every username out.
MutedAfter(added, command, username) ==
    IF command = "add"
    THEN IF contains(added, username) \/ Contains(username, <<",">>) THEN added
         ELSE Append(added, username)
    ELSE IF command = "delete" THEN SelectSeq(added, LAMBDA u : u # username)
    ELSE IF command = "delete-all" THEN <<>>
    ELSE added

\* Nothing muted, no command given yet.
InitMuteList ==
    /\ StoreIdle
    /\ ConcIdle
    /\ HookIdle
    /\ JsonIdle
    /\ PureIdle
    /\ OAuthIdle
    /\ ApiIdle
    /\ mkv = <<>>
    /\ mlast = [op |-> "none", username |-> <<>>, text |-> "", added |-> <<>>]

\* handleMuteCommand(parameters) with a store that reads and writes: list,
\* add <username>, delete <username>, delete-all.
handleMuteCommand(command, username) ==
    LET add == handleMuteAddOutcome(mkv, username, TRUE, TRUE)
    IN  /\ command = "add" => Len(getMutedUsernames(mkv)) < MaxMuted
        /\ mkv' = IF command = "add" THEN add.stored
                  ELSE IF command = "delete"
                  THEN Join(arrayDifference(getMutedUsernames(mkv), <<username>>), <<",">>)
                  ELSE IF command = "delete-all" THEN <<>>
                  ELSE mkv
        /\ mlast' = [op |-> command, username |-> username,
                     text |-> IF command = "list" THEN handleMuteList(getMutedUsernames(mkv))
                              ELSE IF command = "add" THEN add.text
                              ELSE IF command = "delete" THEN "is no longer muted"
                              ELSE "Unmuted all users",
                     added |-> MutedAfter(mlast.added, command, username)]
        /\ UNCHANGED notMuteVars

\* The usernames of the sequence: those of the single commands and one more.
MuteListUsernames == MuteUsernames \union {<<"c">>}

NextMuteList ==
    \/ handleMuteCommand("list", <<>>)
    \/ \E username \in MuteListUsernames : handleMuteCommand("add", username)
    \/ \E username \in MuteListUsernames : handleMuteCommand("delete", username)
    \/ handleMuteCommand("delete-all", <<>>)

SpecMuteList == InitMuteList /\ [][NextMuteList]_vars

\* C26: after any sequence of mute add, delete and delete-all commands with
\* a working store, the stored muted list holds exactly the usernames added
\* and not deleted afterwards, each once, in order of addition; after
\* delete-all the list is empty, and the list command answers "You have no
\* muted users" exactly when nothing is muted.
C26_MutedList ==
    /\ MutedListOf(mkv) = mlast.added
    /\ \A i, j \in 1..Len(MutedListOf(mkv)) :
           MutedListOf(mkv)[i] = MutedListOf(mkv)[j] => i = j
    /\ mlast.op = "delete-all" => MutedListOf(mkv) = <<>>
    /\ mlast.op = "list" =>
           (mlast.text = "You have no muted users" <=> mlast.added = <<>>)

\* C26 witness: a, b and ab were added in this order and b was deleted.
C26_Witness ==
    /\ mlast.op = "delete"
    /\ mlast.username = User_b
    /\ mlast.text = "is no longer muted"
    /\ mlast.added = <<User_a, User_ab>>
    /\ mkv = <<"a", ",", "a", "b">>

\* ---------------------------------------------------------------------------
\* Unsubscribe: what it leaves in the store (Spec)
\* ---------------------------------------------------------------------------

\* The subscriptions of a list that are not of the channel, in their order.
OfOtherChannels(list, channelID) == SelectSeq(list, LAMBDA s : s.ChannelID # channelID)

StateTokens == {"t1", "t2"}

\* model.NewId()[:15]: a token not made before.
NewId(made) == IF "t1" \notin made THEN "t1" ELSE "t2"

\* The state parameters of a completion request: a token, or none.
NoToken == ""
StateParameters == StateTokens \union {NoToken}

\* The OAuthState a Get leaves when nothing is stored under the key: the
\* zero value.
ZeroState == [UserID |-> "", Token |-> NoToken]

\* The logins GitHub answers Users.Get with.
GitHubLogins == {"g1", "g2"}

\* Nobody connected, no state stored, no token made, no request served.
InitComplete ==
    /\ StoreIdle
    /\ ConcIdle
    /\ HookIdle
    /\ JsonIdle
    /\ PureIdle
    /\ MuteIdle
    /\ OAuthIdle
    /\ akv = [info |-> [u \in ApiUsers |-> <<>>],
              state |-> [t \in StateTokens |-> <<>>],
              mapping |-> [g \in GitHubLogins |-> ""]]
    /\ areq = [q \in RequestIDs |-> [pc |-> "idle"]]
    /\ adm = [u \in ApiUsers |-> <<>>]
    /\ anow = 0
    /\ alast = [op |-> "none", made |-> {}, connected |-> [t \in StateTokens |-> 0]]

\* connectUserToGitHub, the state: a new token, and the state of the user
\* stored under it unless the store fails.
storeOAuthState(userID, setOK) ==
    /\ alast.made # StateTokens
    /\ akv' = IF setOK
              THEN [akv EXCEPT !.state[NewId(alast.made)] =
                                   << [UserID |-> userID, Token |-> NewId(alast.made)] >>]
              ELSE akv
    /\ alast' = [alast EXCEPT !.made = @ \union {NewId(alast.made)}]
    /\ UNCHANGED <<notApiVars, areq, adm, anow>>

\* The state stored under a token expires (TokenTTL).
stateExpires(token) ==
    /\ akv.state[token] # <<>>
    /\ akv' = [akv EXCEPT !.state[token] = <<>>]
    /\ UNCHANGED <<notApiVars, areq, adm, anow, alast>>

\* completeConnectUserToGitHub up to the read of the state: a request without
\* a code is answered "missing authorization code".
completeBegin(q, userID, hasCode, stateToken) ==
    /\ areq[q].pc = "idle"
    /\ stateToken \in alast.made \union {NoToken}
    /\ areq' = [areq EXCEPT ![q] =
           IF ~hasCode THEN [pc |-> "idle"]
           ELSE [pc |-> "get", userID |-> userID, stateToken |-> stateToken]]
    /\ UNCHANGED <<notApiVars, akv, adm, anow, alast>>

\* err := p.store.Get(githubOauthKey+stateToken, &state): an error ends the
\* request with "missing stored state"; with no state under the key the
\* state stays the zero value.
completeGet(q, getOK) ==
    LET stateToken == areq[q].stateToken
        found == stateToken # NoToken /\ akv.state[stateToken] # <<>>
    IN  /\ areq[q].pc = "get"
        /\ areq' = [areq EXCEPT ![q] =
               IF ~getOK THEN [pc |-> "idle"]
               ELSE [pc |-> "delete", userID |-> areq[q].userID, stateToken |-> stateToken,
                     found |-> found,
                     state |-> IF found THEN akv.state[stateToken][1] ELSE ZeroState]]
        /\ UNCHANGED <<notApiVars, akv, adm, anow, alast>>

\* A check of the token only.
stateAcceptedForAnyUser(state, stateToken, userID) == state.Token = stateToken

\* state.Token != stateToken and state.UserID != c.UserID, as the condition
\* to go on.
stateAccepted(state, stateToken, userID) ==
    /\ state.Token = stateToken
    /\ state.UserID = userID

\* err = p.store.Delete(githubOauthKey + stateToken), the checks of the state
\* read and getOAuthConfig: an error or a failed check ends the request.
completeDelete(q, deleteOK, confOK) ==
    LET r == areq[q]
    IN  /\ r.pc = "delete"
        /\ akv' = IF deleteOK /\ r.stateToken # NoToken
                  THEN [akv EXCEPT !.state[r.stateToken] = <<>>]
                  ELSE akv
        /\ areq' = [areq EXCEPT ![q] =
               IF deleteOK /\ stateAccepted(r.state, r.stateToken, r.userID) /\ confOK
               THEN [r EXCEPT !.pc = "exchange"]
               ELSE [pc |-> "idle"]]
        /\ UNCHANGED <<notApiVars, adm, anow, alast>>

\* conf.Exchange(ctx, code) and githubClient.Users.Get(ctx, ""): GitHub
\* gives a token and the login of its user, or one of the two calls fails.
completeExchange(q, exchanged, login) ==
    /\ areq[q].pc = "exchange"
    /\ areq' = [areq EXCEPT ![q] =
           IF exchanged THEN [areq[q] EXCEPT !.pc = "store"] @@ [login |-> login]
           ELSE [pc |-> "idle"]]
    /\ UNCHANGED <<notApiVars, akv, adm, anow, alast>>

\* p.storeGitHubUserInfo(userInfo), for the user of the state: a failure ends
\* the request with "unable to connect user to GitHub".
completeStoreUserInfo(q, setOK) ==
    LET r == areq[q]
    IN  /\ r.pc = "store"
        /\ akv' = IF setOK
                  THEN [akv EXCEPT !.info[r.state.UserID] =
                                       << [UserID |-> r.state.UserID, GitHubUsername |-> r.login] >>]
                  ELSE akv
        /\ areq' = [areq EXCEPT ![q] = IF setOK THEN [r EXCEPT !.pc = "mapping"]
                                       ELSE [pc |-> "idle"]]
        /\ alast' = [alast EXCEPT !.connected[r.stateToken] = IF setOK THEN @ + 1 ELSE @]
        /\ UNCHANGED <<notApiVars, adm, anow>>

\* p.storeGitHubToUserIDMapping(gitUser.GetLogin(), state.UserID): a failure
\* is logged; the request ends with the user connected.
completeStoreMapping(q, setOK) ==
    LET r == areq[q]
    IN  /\ r.pc = "mapping"
        /\ akv' = IF setOK THEN [akv EXCEPT !.mapping[r.login] = r.state.UserID] ELSE akv
        /\ areq' = [areq EXCEPT ![q] = [pc |-> "idle"]]
        /\ UNCHANGED <<notApiVars, adm, anow, alast>>

\* The completion requests served at the same time: two.
CompletionIDs == {1, 2}

NextComplete ==
    \/ \E userID \in ApiUsers, setOK \in BOOLEAN : storeOAuthState(userID, setOK)
    \/ \E token \in StateTokens : stateExpires(token)
    \/ \E q \in CompletionIDs, userID \in ApiUsers, hasCode \in BOOLEAN,
          stateToken \in StateParameters : completeBegin(q, userID, hasCode, stateToken)
    \/ \E q \in CompletionIDs, getOK \in BOOLEAN : completeGet(q, getOK)
    \/ \E q \in CompletionIDs, deleteOK \in BOOLEAN, confOK \in BOOLEAN :
           completeDelete(q, deleteOK, confOK)
    \/ \E q \in CompletionIDs, exchanged \in BOOLEAN, login \in GitHubLogins :
           completeExchange(q, exchanged, login)
    \/ \E q \in CompletionIDs, setOK \in BOOLEAN : completeStoreUserInfo(q, setOK)
    \/ \E q \in CompletionIDs, setOK \in BOOLEAN : completeStoreMapping(q, setOK)

SpecComplete == InitComplete /\ [][NextComplete]_vars

\* The request is past the checks of the state: it exchanges the code or
\* stores what it got for it.
PastStateChecks(q) == areq[q].pc \in {"exchange", "store", "mapping"}

\* C28: a step that writes user info or the username mapping is the step of
\* a completion request that found a state stored under its state parameter,
\* with the token of the parameter and the UserID of the requesting user, and
\* it writes for that user only; no other step writes either for any user.
C28_StoresOnlyForStateOwner ==
    [][(akv'.info # akv.info \/ akv'.mapping # akv.mapping) =>
          \E q \in CompletionIDs :
              /\ areq[q].pc \in {"store", "mapping"}
              /\ areq[q].found
              /\ areq[q].state.Token = areq[q].stateToken
              /\ areq[q].state.UserID = areq[q].userID
              /\ \A u \in ApiUsers \ {areq[q].userID} : akv'.info[u] = akv.info[u]
              /\ \A g \in GitHubLogins :
                     akv'.mapping[g] # akv.mapping[g] => akv'.mapping[g] = areq[q].userID]_vars

\* C28 witness: u1 is connected by a request with the token of u1's state,
\* after a request of u2 with a token of u1 was turned away.
C28_Witness ==
    /\ \A q \in CompletionIDs : areq[q].pc = "idle"
    /\ akv.info["u1"] # <<>>
    /\ akv.info["u2"] = <<>>
    /\ alast.made = StateTokens
    /\ alast.connected = [t \in StateTokens |-> IF t = "t2" THEN 1 ELSE 0]
    /\ akv.mapping["g1"] = "u1"

\* C29: a stored state token leads to at most one connection, whether the
\* completion requests that carry it come one after the other or at the
\* same time.
C29_TokenSingleUse == \A t \in StateTokens : alast.connected[t] <= 1

\* ---------------------------------------------------------------------------
\* /github default-repo set and the organization lock (SpecDefaultRepo)
\* ---------------------------------------------------------------------------

\* handleSetDefaultRepo, the lock: config.GitHubOrg != "" &&
\* strings.ToLower(config.GitHubOrg) != owner, for the owner in lower case.
defaultRepoLocked(config, owner) ==
    config.GitHubOrg # <<>> /\ ToLower(config.GitHubOrg) # owner

\* handleSetDefaultRepo for the owner and repository parseOwnerAndRepo makes
\* of the parameter: the message and what is stored under the key of the
\* channel and user. gh is what Repositories.Get answers.
handleSetDefaultRepo(config, ownerArg, repoArg, gh, setOK) ==
    LET owner == ToLower(ownerArg)
        repo == ToLower(repoArg)
        none(text, locked) == [op |-> "handleSetDefaultRepo", text |-> text, stored |-> <<>>,
                               locked |-> locked]
    IN  IF ownerArg = <<>> \/ repoArg = <<>>
        THEN none("Please provide a valid repository", FALSE)
        ELSE IF defaultRepoLocked(config, owner)
        THEN none("Repository is not part of the locked Github organization.", TRUE)
        ELSE IF gh = "error"
        THEN none("Error occurred while getting github repository details", FALSE)
        ELSE IF gh = "nil" THEN none("Unknown repository", FALSE)
        ELSE IF ~setOK THEN none("Error occurred saving the default repo", FALSE)
        ELSE [op |-> "handleSetDefaultRepo",
              text |-> "The default repo has been set for this channel",
              stored |-> owner \o <<"/">> \o repo, locked |-> FALSE]

\* GithubOrg settings: none, one organization, one in capitals, one after a
\* space, two and three organizations, a list with a space after the comma.
GitHubOrgInputs ==
    {<<>>, <<"a">>, <<"A">>, <<" ", "a">>, <<"b">>, <<"a", ",", "b">>,
     <<"b", ",", " ", "a">>, <<"a", ",", "b", ",", "c">>}

DefaultRepoInputs ==
    [config : [GitHubOrg : GitHubOrgInputs],
     owner : {<<>>, <<"a">>, <<"A">>, <<"b">>, <<"d">>},
     repo : {<<"w">>},
     gh : {"found", "nil", "error"},
     setOK : BOOLEAN]

InitDefaultRepo ==
    /\ StoreIdle
    /\ ConcIdle
    /\ HookIdle
    /\ JsonIdle
    /\ MuteIdle
    /\ OAuthIdle
    /\ ApiIdle
    /\ arg \in DefaultRepoInputs
    /\ res = [op |-> "none"]

\* /github default-repo set <owner>/<repo>
handleSetDefaultRepoCall ==
    /\ res.op = "none"
    /\ res' = handleSetDefaultRepo(arg.config, arg.owner, arg.repo, arg.gh, arg.setOK)
    /\ UNCHANGED <<notPureVars, arg>>

NextDefaultRepo == handleSetDefaultRepoCall

SpecDefaultRepo == InitDefaultRepo /\ [][NextDefaultRepo]_vars

\* C30: for every GithubOrg setting, default-repo set turns an owner away for
\* the organization lock exactly when checkOrg does.
C30_SameOrgLock ==
    (res.op = "handleSetDefaultRepo" /\ arg.owner # <<>>) =>
        (res.locked <=> checkOrg(arg.config, arg.owner) # NoError)

====
